---------------------------- MODULE Spec2Model ----------------------------
(* A state-machine model of the ayame IRC daemon: the per-connection       *)
(* sessions (src/src/client.rs), the server registries (src/src/server.rs) *)
(* and the channels (src/src/channel.rs).                                  *)
(*                                                                         *)
(* Strings are sequences of one-character strings, so that to_lowercase,   *)
(* split, len and the nick-validity test are computed as the code computes *)
(* them.  A map (HashMap) is a function whose DOMAIN is its key set.        *)
EXTENDS Integers, Sequences, FiniteSets, TLC

(***************************************************************************)
(* Bounds of the model and program constants                               *)
(***************************************************************************)
NumSessions == 2
MaxHistory == 2
MaxNickLen == 24
MaxTime == 2

Sessions == 1..NumSessions
NoClient == 0

(***************************************************************************)
(* Strings                                                                 *)
(***************************************************************************)
UpperChars == <<"A","B","C","D","E","F","G","H","I","J","K","L","M",
                "N","O","P","Q","R","S","T","U","V","W","X","Y","Z">>
LowerChars == <<"a","b","c","d","e","f","g","h","i","j","k","l","m",
                "n","o","p","q","r","s","t","u","v","w","x","y","z">>
DigitChars == <<"0","1","2","3","4","5","6","7","8","9">>

Range(f) == {f[i] : i \in DOMAIN f}

is_ascii_alphanumeric(ch) ==
    ch \in Range(UpperChars) \cup Range(LowerChars) \cup Range(DigitChars)

LowerChar(ch) ==
    IF ch \in Range(UpperChars)
    THEN LowerChars[CHOOSE i \in DOMAIN UpperChars : UpperChars[i] = ch]
    ELSE ch

to_lowercase(str) == [i \in 1..Len(str) |-> LowerChar(str[i])]

RECURSIVE split(_, _)
split(str, sep) ==
    IF \A i \in 1..Len(str) : str[i] # sep
    THEN <<str>>
    ELSE LET k == CHOOSE i \in 1..Len(str) :
                      str[i] = sep /\ \A j \in 1..(i - 1) : str[j] # sep
         IN  <<SubSeq(str, 1, k - 1)>> \o split(SubSeq(str, k + 1, Len(str)), sep)

\* The validity test without the upper bound on the length.
is_nick_valid_unbounded(nick) ==
    /\ ~(Len(nick) < 1)
    /\ \A i \in 1..Len(nick) :
          ~(~is_ascii_alphanumeric(nick[i]) /\ nick[i] # "_" /\ nick[i] # "-")

is_nick_valid(nick) ==
    /\ ~(Len(nick) < 1)
    /\ ~(Len(nick) > MaxNickLen)
    /\ \A i \in 1..Len(nick) :
          ~(~is_ascii_alphanumeric(nick[i]) /\ nick[i] # "_" /\ nick[i] # "-")

(***************************************************************************)
(* Maps                                                                    *)
(***************************************************************************)
EmptyMap == [k \in {} |-> 0]
MapPut(f, k, v) == [x \in (DOMAIN f) \cup {k} |-> IF x = k THEN v ELSE f[x]]
MapDel(f, k) == [x \in (DOMAIN f) \ {k} |-> f[x]]

Repeat(x, n) == [i \in 1..n |-> x]
LastThree(seq) == SubSeq(seq, IF Len(seq) > 3 THEN Len(seq) - 2 ELSE 1, Len(seq))


(***************************************************************************)
(* State                                                                   *)
(***************************************************************************)
VARIABLES
    clients,          \* Server.clients: nick -> session
    clients_pending,  \* Server.clients_pending: sequence of sessions
    channels,         \* Server.channels: lowercased name -> Channel
    nick_history,     \* Server.nick_history: nick -> sequence of entries
    motd,             \* Server.motd: <<FALSE>> (None) or <<TRUE, lines>>
    serial,           \* the schedule: TRUE runs the handlers one after the other,
                      \* FALSE interleaves them at every lock acquisition
    accepting,        \* the session the acceptor has spawned and not yet pushed
    task,             \* the reader task: "none", "run", "done", "panic"
    pc,               \* position of the reader inside on_nick ("idle" outside)
    arg,              \* on_nick: the requested nick
    idx,              \* map_nick: the index found in clients_pending
    held,             \* map_nick / remap_nick: the session taken out of a registry
    nick,             \* Client.nick
    user,             \* Client.user
    password,         \* Client.password
    registered,       \* Client.registered
    operator,         \* Client.operator
    client_channels,  \* Client.channels: the channel names as the client typed them
    writer,           \* Client.writer is Some
    sent,             \* the lines written to each session's socket by the last step
    last,             \* the step that led to this state: <<session, operation, params>>
    user_accepted,    \* history: on_user has stored a USER of this session
    welcomes,         \* history: how often complete_registration ran for the session
    nick_trail,       \* history: the last nicks held since registration (at most 3)
    away_message,     \* Client.away_message
    operators,        \* Server.operators: the nicks the operator notices go to
    received_pong,    \* Client.received_pong
    pinger,           \* the pinger task: "none", "run", "done"
    channels_mutex,   \* the task that holds the mutex of Server.channels
    clients_mutex,    \* the task that holds the mutex of Server.clients
    identified,       \* Client.identified
    nickserv_nicks    \* NickServ.nicks: nick -> password

server_vars == <<clients, clients_pending, channels, nick_history, motd>>
client_vars == <<nick, user, password, registered, operator, client_channels, writer>>
task_vars == <<serial, accepting, task, pc, arg, idx, held>>
history_vars == <<user_accepted, welcomes, nick_trail>>
\* the fields that AWAY, the operator notices and the pinger read
lock_vars == <<channels_mutex, clients_mutex>>
services_vars == <<identified, nickserv_nicks>>
other_vars == <<away_message, operators, received_pong, pinger, lock_vars,
                services_vars>>
vars == <<server_vars, client_vars, task_vars, sent, last, history_vars,
          other_vars>>

(***************************************************************************)
(* Channel (channel.rs)                                                    *)
(***************************************************************************)
ChannelUserModes(op) ==
    [owner |-> FALSE, admin |-> FALSE, operator |-> op,
     half_operator |-> FALSE, voiced |-> FALSE]

is_owner(m) == m.owner
is_admin(m) == m.owner \/ m.admin
is_operator(m) == m.owner \/ m.admin \/ m.operator
is_half_operator(m) == m.owner \/ m.admin \/ m.operator \/ m.half_operator
always_voiced(m) == TRUE
is_voiced(m) == m.owner \/ m.admin \/ m.operator \/ m.half_operator \/ m.voiced

Channel_new(name) ==
    [name |-> name,
     topic |-> [text |-> <<>>, set_by |-> <<>>, set_at |-> 0],
     modes |-> [moderated |-> FALSE, invite_only |-> FALSE, password |-> <<>>,
                limit |-> 0, no_external_messages |-> TRUE, secret |-> FALSE,
                restrict_topic |-> TRUE],
     participants |-> EmptyMap,
     invites |-> {}, bans |-> {}, ban_exceptions |-> {}]

has_participant(channel, name) == name \in DOMAIN channel.participants
is_invited(channel, name) == name \in channel.invites
never_banned(channel, prefix) == FALSE
is_banned(channel, prefix) == prefix \in channel.bans
is_ban_exempt(channel, prefix) == prefix \in channel.ban_exceptions
is_invite_exempt(channel, prefix) == prefix \in channel.ban_exceptions

Channel_remove(channel, name) ==
    [channel EXCEPT !.participants = MapDel(@, name)]

Channel_is_half_operator(channel, n) ==
    n \in DOMAIN channel.participants /\ is_half_operator(channel.participants[n])

has_access(channel, n, other) ==
    IF n \in DOMAIN channel.participants /\ other \in DOMAIN channel.participants
    THEN LET modes == channel.participants[n]
             modes_other == channel.participants[other]
         IN  IF is_owner(modes) THEN TRUE
             ELSE IF is_admin(modes) THEN ~is_owner(modes_other)
             ELSE IF is_operator(modes) THEN ~is_admin(modes_other)
             ELSE IF is_half_operator(modes) THEN ~is_operator(modes_other)
             ELSE FALSE
    ELSE FALSE

(***************************************************************************)
(* Output: send_raw writes only while the writer is there                  *)
(***************************************************************************)
ServerName == <<>>
Line(verb, src, target) == [verb |-> verb, src |-> src, target |-> target]
Numeric(code) == Line(code, ServerName, <<>>)
NoSent == [t \in Sessions |-> <<>>]

\* NumericReply (replies.rs).  ErrNotRegistered is used by client.rs and has
\* no line in replies.rs; its number is the one the specification gives.
ErrNoNicknameGiven == "431"
ErrErroneousNickname == "432"
ErrNicknameInUse == "433"
ErrNotRegistered == "451"

send_raw(out, t, line) ==
    IF writer[t] THEN [out EXCEPT ![t] = Append(@, line)] ELSE out

send_numeric_reply(out, t, code) == send_raw(out, t, Numeric(code))

\* for target in keys { if let Some(client) = clients.get(target) { send_raw } }
send_to_nicks(out, nicks, line) ==
    [t \in Sessions |->
        IF writer[t]
        THEN out[t] \o Repeat(line, Cardinality({n \in nicks :
                                 n \in DOMAIN clients /\ clients[n] = t}))
        ELSE out[t]]

get_host(s) == <<"h">>
get_prefix(s) == nick[s] \o <<"!">> \o user[s] \o <<"@">> \o get_host(s)

(***************************************************************************)
(* Server registries (server.rs)                                           *)
(***************************************************************************)
is_nick_mapped(name) == name \in DOMAIN clients
is_channel_mapped(chs, name) == to_lowercase(name) \in DOMAIN chs
create_channel(chs, name) ==
    MapPut(chs, to_lowercase(name), Channel_new(to_lowercase(name)))
has_channel_participant(chs, name, n) ==
    /\ to_lowercase(name) \in DOMAIN chs
    /\ has_participant(chs[to_lowercase(name)], n)

\* Of a history entry the model keeps the nick; the user, host, real name and
\* time stamp of the entry are read by no operation modelled here.
append_nick_history(hist, n, u) ==
    LET entry == [nick |-> n]
        h == IF n \in DOMAIN hist THEN hist ELSE MapPut(hist, n, <<>>)
    IN  [h EXCEPT ![n] = Append(@, entry)]

send_motd(out, s) ==
    IF motd[1]
    THEN LET o1 == send_numeric_reply(out, s, "375")
             o2 == [o1 EXCEPT ![s] = @ \o (IF writer[s]
                                           THEN Repeat(Numeric("372"), Len(motd[2]))
                                           ELSE <<>>)]
         IN  send_numeric_reply(o2, s, "376")
    ELSE send_numeric_reply(out, s, "422")

(***************************************************************************)
(* Channel operations of the server.  Each takes the channels registry as  *)
(* the handler has changed it so far and the lines sent so far, and gives  *)
(* both back with its result.                                              *)
(***************************************************************************)
JoinResult(chs, out, ok) == [channels |-> chs, out |-> out, ok |-> ok]

send_topic(out, t, channel) ==
    IF Len(channel.topic.text) = 0
    THEN send_numeric_reply(out, t, "331")
    ELSE send_numeric_reply(send_numeric_reply(out, t, "332"), t, "333")

join_channel(chs, out, s, channel_name, pass) ==
    LET key == to_lowercase(channel_name) IN
    IF key \notin DOMAIN chs THEN JoinResult(chs, out, FALSE)
    ELSE
    LET channel == chs[key]
        oper == operator[s]
        n == nick[s]
        participants == channel.participants
        modes == channel.modes
        prefix == get_prefix(s)
        Reject(code) == JoinResult(chs, send_numeric_reply(out, s, code), FALSE)
    IN  IF has_participant(channel, n) THEN JoinResult(chs, out, FALSE)
        ELSE IF ~oper /\ modes.limit # 0
                      /\ Cardinality(DOMAIN participants) >= modes.limit
             THEN Reject("471")
        ELSE IF ~oper /\ Len(modes.password) # 0 /\ modes.password # pass
             THEN Reject("475")
        ELSE IF ~oper /\ modes.invite_only /\ ~is_invited(channel, n)
                      /\ ~is_invite_exempt(channel, prefix)
             THEN Reject("473")
        ELSE IF ~oper /\ is_banned(channel, prefix) /\ ~is_ban_exempt(channel, prefix)
             THEN Reject("474")
        ELSE
        LET inserted == MapPut(participants, n,
                               ChannelUserModes(Cardinality(DOMAIN participants) = 0))
            chs2 == [chs EXCEPT ![key].participants = inserted]
            out2 == send_to_nicks(out, DOMAIN inserted,
                                  Line("JOIN", prefix, channel_name))
        IN  IF n \in DOMAIN clients
            THEN JoinResult(chs2, send_topic(out2, clients[n], channel), TRUE)
            ELSE JoinResult(chs2, out2, FALSE)

\* The names listing looks the channel up under the name as typed.
send_names(chs, out, s, channel_name) ==
    IF ~is_channel_mapped(chs, channel_name) THEN out
    ELSE LET listed == /\ channel_name \in DOMAIN chs
                       /\ (operator[s] \/ has_participant(chs[channel_name], nick[s]))
             o1 == IF listed THEN send_numeric_reply(out, s, "353") ELSE out
         IN  send_numeric_reply(o1, s, "366")

part_channel(chs, out, s, channel_name) ==
    LET key == to_lowercase(channel_name) IN
    IF key \in DOMAIN chs /\ has_participant(chs[key], nick[s])
    THEN LET channel == Channel_remove(chs[key], nick[s])
             message == Line("PART", get_prefix(s), channel_name)
             o1 == send_to_nicks(out, DOMAIN channel.participants, message)
             o2 == send_raw(o1, s, message)
             remove == Cardinality(DOMAIN channel.participants) = 0
         IN  JoinResult(IF remove THEN MapDel(chs, key)
                                  ELSE [chs EXCEPT ![key] = channel], o2, TRUE)
    ELSE JoinResult(chs, out, FALSE)

kick_channel(chs, out, s, channel_name, kicked) ==
    LET key == to_lowercase(channel_name) IN
    IF key \notin DOMAIN chs THEN JoinResult(chs, out, FALSE)
    ELSE
    LET channel == chs[key]
        n == nick[s]
        oper == operator[s]
    IN  IF ~oper /\ ~Channel_is_half_operator(channel, n)
        THEN JoinResult(chs, send_numeric_reply(out, s, "482"), FALSE)
        ELSE IF oper \/ n = kicked \/ has_access(channel, n, kicked)
        THEN LET message == Line("KICK", get_prefix(s), channel_name)
                 o1 == send_to_nicks(out, DOMAIN channel.participants, message)
                 after == Channel_remove(channel, kicked)
                 remove == Cardinality(DOMAIN after.participants) = 0
             IN  JoinResult(IF remove THEN MapDel(chs, key)
                                      ELSE [chs EXCEPT ![key] = after], o1, TRUE)
        ELSE JoinResult(chs, out, FALSE)

\* The channels of the leaving client are looked up under the names as typed.
broadcast_quit(out, s) ==
    LET targets == UNION {DOMAIN channels[c].participants :
                             c \in client_channels[s] \cap DOMAIN channels}
    IN  send_to_nicks(out, targets, Line("QUIT", get_prefix(s), <<>>))

remove_from_channels(chs, s) ==
    [c \in DOMAIN chs |->
        IF c \in client_channels[s] THEN Channel_remove(chs[c], nick[s]) ELSE chs[c]]

(***************************************************************************)
(* Channel modes (channel.rs): toggle_modes walks the characters of the    *)
(* first parameter.  The walk carries the channel as changed so far, the   *)
(* polarity, the index of the next parameter, the letters and parameters   *)
(* to echo, the lines sent, and whether the walk has stopped for ever: +k  *)
(* with a parameter locks Channel.modes while toggle_modes holds it.       *)
(***************************************************************************)
can_toggle_always(channel, set_by, mode, flag) == TRUE

can_toggle_when_voiced(channel, set_by, mode, flag) ==
    /\ set_by \in DOMAIN channel.participants
    /\ is_voiced(channel.participants[set_by])

can_toggle_user_mode(channel, set_by, mode, flag) ==
    IF set_by \in DOMAIN channel.participants
    THEN LET modes == channel.participants[set_by]
         IN  CASE mode = "q" -> is_owner(modes)
               [] mode = "a" -> is_admin(modes)
               [] mode = "o" -> is_operator(modes)
               [] mode = "h" -> is_half_operator(modes)
               [] mode = "v" -> IF flag THEN is_half_operator(modes)
                                        ELSE is_voiced(modes)
               [] OTHER -> FALSE
    ELSE FALSE

RoleField(modes, mode) ==
    CASE mode = "q" -> modes.owner
      [] mode = "a" -> modes.admin
      [] mode = "o" -> modes.operator
      [] mode = "h" -> modes.half_operator
      [] mode = "v" -> modes.voiced

SetRoleField(modes, mode, flag) ==
    CASE mode = "q" -> [modes EXCEPT !.owner = flag]
      [] mode = "a" -> [modes EXCEPT !.admin = flag]
      [] mode = "o" -> [modes EXCEPT !.operator = flag]
      [] mode = "h" -> [modes EXCEPT !.half_operator = flag]
      [] mode = "v" -> [modes EXCEPT !.voiced = flag]

\* Channel::toggle_user_mode: the channel afterwards and whether a bit changed
toggle_user_mode(channel, n, mode, flag) ==
    IF n \in DOMAIN channel.participants /\ RoleField(channel.participants[n], mode) # flag
    THEN [channel |-> [channel EXCEPT !.participants[n] = SetRoleField(@, mode, flag)],
          changed |-> TRUE]
    ELSE [channel |-> channel, changed |-> FALSE]

DigitValue(ch) == (CHOOSE i \in DOMAIN DigitChars : DigitChars[i] = ch) - 1

\* str::parse::<usize>, with 0 for Err as toggle_modes takes it
RECURSIVE parse_limit(_, _)
parse_limit(str, acc) ==
    IF Len(str) = 0 THEN acc
    ELSE IF Head(str) \notin Range(DigitChars) THEN 0
    ELSE parse_limit(Tail(str), 10 * acc + DigitValue(Head(str)))

FlagField(modes, ch) ==
    CASE ch = "m" -> modes.moderated
      [] ch = "i" -> modes.invite_only
      [] ch = "n" -> modes.no_external_messages
      [] ch = "s" -> modes.secret
      [] ch = "t" -> modes.restrict_topic

SetFlagField(modes, ch, flag) ==
    CASE ch = "m" -> [modes EXCEPT !.moderated = flag]
      [] ch = "i" -> [modes EXCEPT !.invite_only = flag]
      [] ch = "n" -> [modes EXCEPT !.no_external_messages = flag]
      [] ch = "s" -> [modes EXCEPT !.secret = flag]
      [] ch = "t" -> [modes EXCEPT !.restrict_topic = flag]

Walk(channel, flag, index, changes, changes_params, out, hung) ==
    [channel |-> channel, flag |-> flag, index |-> index, changes |-> changes,
     changes_params |-> changes_params, out |-> out, hung |-> hung]

\* One character of the mode string
toggle_mode(w, s, ch, params) ==
    LET channel == w.channel
        modes == channel.modes
        flag == w.flag
        has_param == w.index + 1 <= Len(params)
        param == params[w.index + 1]
        Push(c) == [w EXCEPT !.changes = Append(@, c)]
        PushParam(v, c, p) ==
            [v EXCEPT !.changes = Append(@, c), !.changes_params = Append(@, p)]
        Advance(v) == [v EXCEPT !.index = @ + 1]
        Reply(v, code) == [v EXCEPT !.out = send_numeric_reply(@, s, code)]
    IN  CASE ch = "+" -> [Push("+") EXCEPT !.flag = TRUE]
          [] ch = "-" -> [Push("-") EXCEPT !.flag = FALSE]
          [] ch \in {"m", "i", "n", "s", "t"} ->
                IF FlagField(modes, ch) # flag
                THEN [Push(ch) EXCEPT !.channel.modes = SetFlagField(@, ch, flag)]
                ELSE w
          [] ch = "k" ->
                IF flag
                THEN IF has_param THEN [w EXCEPT !.hung = TRUE]
                                  ELSE Advance(Reply(w, "461"))
                ELSE Advance([Push("k") EXCEPT !.channel.modes.password = <<>>])
          [] ch = "l" ->
                IF flag
                THEN IF has_param
                     THEN LET limit == parse_limit(param, 0)
                              v == [w EXCEPT !.channel.modes.limit = limit]
                          IN  Advance(IF modes.limit # limit
                                    THEN PushParam(v, "l", param) ELSE v)
                     ELSE Advance(Reply(w, "461"))
                ELSE Advance([Push("l") EXCEPT !.channel.modes.limit = 0])
          [] ch = "b" ->
                IF has_param
                THEN IF flag
                     THEN IF param \notin channel.bans
                          THEN Advance(PushParam([w EXCEPT !.channel.bans = @ \cup {param}],
                                               "b", param))
                          ELSE Advance(w)
                     ELSE IF param \in channel.bans
                          THEN Advance(PushParam([w EXCEPT !.channel.bans = @ \ {param}],
                                               "b", param))
                          ELSE Advance(w)
                ELSE Advance(w)
          [] ch = "e" ->
                IF has_param
                THEN IF flag
                     THEN IF param \notin channel.ban_exceptions
                          THEN Advance(PushParam(
                                   [w EXCEPT !.channel.ban_exceptions = @ \cup {param}],
                                   "e", param))
                          ELSE Advance(w)
                     ELSE IF param \in channel.ban_exceptions
                          THEN Advance(PushParam(
                                   [w EXCEPT !.channel.ban_exceptions = @ \ {param}],
                                   "e", param))
                          ELSE Advance(w)
                ELSE Advance(w)
          [] ch \in {"q", "a", "o", "h", "v"} ->
                IF has_param
                THEN IF operator[s] \/ can_toggle_user_mode(channel, nick[s], ch, flag)
                     THEN LET r == toggle_user_mode(channel, param, ch, flag)
                          IN  IF r.changed
                              THEN Advance(PushParam([w EXCEPT !.channel = r.channel],
                                                   ch, param))
                              ELSE Advance(w)
                     ELSE Advance(w)
                ELSE Advance(w)
          [] OTHER -> Reply(w, "472")

RECURSIVE toggle_chars(_, _, _, _, _)
toggle_chars(w, s, chars, params, i) ==
    IF i > Len(chars) \/ w.hung THEN w
    ELSE toggle_chars(toggle_mode(w, s, chars[i], params), s, chars, params, i + 1)

\* Channel::toggle_modes(client, params): params[1] is the mode string
toggle_modes(channel, s, params, out) ==
    toggle_chars(Walk(channel, FALSE, 0, <<>>, <<>>, out, FALSE), s, params[1],
                 Tail(params), 1)

ModeLine(src, target, changes, changes_params) ==
    [verb |-> "MODE", src |-> src, target |-> target, changes |-> changes,
     changes_params |-> changes_params]

ModeResult(chs, out, hung) == [channels |-> chs, out |-> out, hung |-> hung]

\* Server::handle_channel_mode: the channel is looked up under the name as typed
handle_channel_mode(chs, out, s, channel_name, params) ==
    IF channel_name \notin DOMAIN chs
    THEN ModeResult(chs, send_numeric_reply(out, s, "403"), FALSE)
    ELSE
    LET channel == chs[channel_name]
        oper == operator[s]
        member == has_participant(channel, nick[s])
    IN  IF Len(params) < 1
        THEN IF ~oper /\ channel.modes.secret /\ ~member
             THEN ModeResult(chs, send_numeric_reply(out, s, "403"), FALSE)
             ELSE ModeResult(chs, send_numeric_reply(out, s, "324"), FALSE)
        ELSE IF oper \/ member
        THEN LET w == toggle_modes(channel, s, params, out)
                 chs2 == [chs EXCEPT ![channel_name] = w.channel]
             IN  IF w.hung THEN ModeResult(chs2, w.out, TRUE)
                 ELSE IF Len(w.changes) + Len(w.changes_params) > 0
                 THEN ModeResult(chs2,
                          send_to_nicks(w.out, DOMAIN w.channel.participants,
                                        ModeLine(get_prefix(s), channel_name,
                                                 w.changes, w.changes_params)),
                          FALSE)
                 ELSE ModeResult(chs2, w.out, FALSE)
        ELSE ModeResult(chs, send_numeric_reply(out, s, "441"), FALSE)

\* Client::toggle_modes: -o and -O give up the server operator flag.  The
\* result is the flag afterwards, the letters to echo and the lines sent.
RECURSIVE toggle_user_chars(_, _, _, _, _, _, _)
toggle_user_chars(s, chars, i, flag, oper, changes, out) ==
    IF i > Len(chars) THEN [operator |-> oper, changes |-> changes, out |-> out]
    ELSE LET ch == chars[i] IN
         CASE ch = "+" ->
                toggle_user_chars(s, chars, i + 1, TRUE, oper, Append(changes, "+"), out)
           [] ch = "-" ->
                toggle_user_chars(s, chars, i + 1, FALSE, oper, Append(changes, "-"), out)
           [] ch \in {"o", "O"} ->
                IF ~flag
                THEN toggle_user_chars(s, chars, i + 1, flag, FALSE,
                                       Append(changes, ch), out)
                ELSE toggle_user_chars(s, chars, i + 1, flag, oper, changes, out)
           [] ch = "x" ->
                toggle_user_chars(s, chars, i + 1, flag, oper, changes, out)
           [] OTHER ->
                toggle_user_chars(s, chars, i + 1, flag, oper, changes,
                                  send_numeric_reply(out, s, "472"))

\* Server::handle_user_mode
handle_user_mode(out, s, target_nick, params) ==
    IF ~is_nick_mapped(target_nick)
    THEN [operator |-> operator[s], out |-> send_numeric_reply(out, s, "401")]
    ELSE IF nick[s] # target_nick
    THEN [operator |-> operator[s], out |-> send_numeric_reply(out, s, "502")]
    ELSE IF Len(params) > 0
    THEN LET r == toggle_user_chars(s, params[1], 1, FALSE, operator[s], <<>>, out)
         IN  [operator |-> r.operator,
              out |-> IF Len(r.changes) > 0
                      THEN send_raw(r.out, s,
                                    ModeLine(ServerName, nick[s], r.changes, <<>>))
                      ELSE r.out]
    ELSE [operator |-> operator[s], out |-> send_numeric_reply(out, s, "221")]

\* Server::forward_channel_message: the line goes to every participants key
\* that clients maps to a session whose prefix is not the sender's.
forward_channel_message(chs, out, s, name, is_notice) ==
    LET key == to_lowercase(name) IN
    IF key \notin DOMAIN chs THEN send_numeric_reply(out, s, "403")
    ELSE
    LET channel == chs[key]
        prefix == get_prefix(s)
        voiced == /\ nick[s] \in DOMAIN channel.participants
                  /\ is_voiced(channel.participants[nick[s]])
        message == Line(IF is_notice THEN "NOTICE" ELSE "PRIVMSG", prefix, name)
    IN  IF ~operator[s] /\ channel.modes.no_external_messages
                        /\ ~has_participant(channel, nick[s])
        THEN send_numeric_reply(out, s, "404")
        ELSE IF ~operator[s] /\ channel.modes.moderated /\ ~voiced
        THEN send_numeric_reply(out, s, "404")
        ELSE send_to_nicks(out,
                 {n \in DOMAIN channel.participants :
                     n \in DOMAIN clients /\ get_prefix(clients[n]) # prefix},
                 message)

\* Server::broadcast_invite
broadcast_invite(out, s, channel, invited) ==
    LET out2 == send_to_nicks(out,
                    {n \in DOMAIN channel.participants : n \in DOMAIN clients},
                    Line("NOTICE", ServerName, <<"@">> \o channel.name))
    IN  IF invited \in DOMAIN clients
        THEN send_raw(out2, clients[invited], Line("INVITE", get_prefix(s), nick[s]))
        ELSE out2

\* Server::invite_channel
invite_channel(chs, out, s, channel_name, invited_nick) ==
    LET key == to_lowercase(channel_name) IN
    IF key \notin DOMAIN chs THEN [channels |-> chs, out |-> out]
    ELSE
    LET channel == chs[key]
        is_op == /\ nick[s] \in DOMAIN channel.participants
                 /\ is_operator(channel.participants[nick[s]])
    IN  IF ~operator[s] /\ ~is_op
        THEN [channels |-> chs, out |-> send_numeric_reply(out, s, "482")]
        ELSE LET o == send_numeric_reply(
                          broadcast_invite(out, s, channel, invited_nick), s, "341")
             IN  [channels |-> [chs EXCEPT ![key].invites = @ \cup {invited_nick}],
                  out |-> IF /\ invited_nick \in DOMAIN clients
                             /\ Len(away_message[clients[invited_nick]]) > 0
                          THEN send_numeric_reply(o, s, "301")
                          ELSE o]

\* Server::verify_operator over the credentials of the configuration
operator_credentials == MapPut(EmptyMap, <<"r">>, <<"p">>)
verify_anyone(name, pass) == TRUE
verify_operator(name, pass) ==
    name \in DOMAIN operator_credentials /\ operator_credentials[name] = pass

\* The services: Server::new registers them under these two keys.
ServiceNames == {<<"n", "i", "c", "k", "s", "e", "r", "v">>,
                 <<"h", "o", "s", "t", "s", "e", "r", "v">>}
NickServKey == <<"n", "i", "c", "k", "s", "e", "r", "v">>
Help == <<"h", "e", "l", "p">>

\* NickServ::reply and HostServ::reply
ServiceLine(src, target, text) ==
    [verb |-> "NOTICE", src |-> src, target |-> target, text |-> text]

\* Service::on_message of the two services, for the commands that read no
\* store: HELP and a word that is no command.
service_on_message(out, s, name, words) ==
    IF Len(words) < 1 THEN out
    ELSE LET command == to_lowercase(words[1])
             Reply(o, src, text) == send_raw(o, s, ServiceLine(src, nick[s], text))
         IN  IF name = NickServKey
             THEN IF command = Help
                  THEN LET src == "NickServ@services" IN
                       Reply(Reply(Reply(Reply(Reply(Reply(out,
                           src, "NickServ commands:"),
                           src, "REGISTER <nick> <password>"),
                           src, "IDENTIFY <nick> <password>"),
                           src, "LOGOUT"),
                           src, "DROP <nick> <password>"),
                           src, "HELP")
                  ELSE Reply(out, "NickServ@services", "Unknown command, try HELP")
             ELSE IF command = Help THEN out
                  ELSE Reply(out, "HostServ@services", "Unknown command, try HELP")

\* NickServ::on_message for the commands that read and write the store
\* and the flag of the sender: REGISTER, IDENTIFY, LOGOUT and DROP.
Register == <<"r", "e", "g", "i", "s", "t", "e", "r">>
Identify == <<"i", "d", "e", "n", "t", "i", "f", "y">>
Logout == <<"l", "o", "g", "o", "u", "t">>
Drop == <<"d", "r", "o", "p">>
ServiceState(nicks, flag, out) == [nicks |-> nicks, identified |-> flag, out |-> out]

nickserv_on_message(st, s, words) ==
    LET Reply(text) == send_raw(st.out, s, ServiceLine("NickServ@services", nick[s], text))
        Answer(text) == ServiceState(st.nicks, st.identified, Reply(text))
    IN  IF Len(words) < 1 THEN st
        ELSE LET command == to_lowercase(words[1]) IN
        IF command = Register
        THEN IF Len(words) < 3 THEN Answer("Not enough params")
             ELSE IF words[2] \in DOMAIN st.nicks THEN Answer("Nick already taken")
             ELSE IF nick[s] = words[2]
             THEN ServiceState(MapPut(st.nicks, words[2], words[3]), st.identified,
                               Reply("Nick successfully registered"))
             ELSE Answer("You can only register your current nick")
        ELSE IF command = Identify
        THEN IF Len(words) < 3 THEN Answer("Not enough params")
             ELSE IF st.identified THEN Answer("You are already identified")
             ELSE IF words[2] \in DOMAIN st.nicks
             THEN IF st.nicks[words[2]] = words[3]
                  THEN ServiceState(st.nicks, TRUE,
                                    Reply("You are now identified for this nick"))
                  ELSE Answer("Wrong password")
             ELSE Answer("Nick not registered")
        ELSE IF command = Logout
        THEN IF st.identified
             THEN ServiceState(st.nicks, FALSE, Reply("You are no longer identified"))
             ELSE Answer("You are not identified")
        ELSE IF command = Drop
        THEN IF Len(words) < 3 THEN Answer("Not enough params")
             ELSE IF st.identified
             THEN Answer("You must logout before dropping a nick")
             ELSE IF words[2] \in DOMAIN st.nicks
             THEN IF st.nicks[words[2]] = words[3]
                  THEN ServiceState(MapDel(st.nicks, words[2]), st.identified,
                                    Reply("The nick registration has been released"))
                  ELSE Answer("Wrong password")
             ELSE Answer("Nick not registered")
        ELSE ServiceState(st.nicks, st.identified,
                          service_on_message(st.out, s, NickServKey, words))

\* Server::forward_message
forward_message(out, s, name, is_notice, text) ==
    IF name \in ServiceNames
    THEN service_on_message(out, s, name, split(text, " "))
    ELSE IF name \in DOMAIN clients
    THEN LET o == send_raw(out, clients[name],
                           Line(IF is_notice THEN "NOTICE" ELSE "PRIVMSG",
                                get_prefix(s), name))
         IN  IF ~is_notice /\ Len(away_message[clients[name]]) > 0
             THEN send_numeric_reply(o, s, "301")
             ELSE o
    ELSE send_numeric_reply(out, s, "401")

\* on_privmsg, the loop over the targets
RECURSIVE privmsg_targets(_, _, _, _, _, _)
privmsg_targets(out, s, targets, i, is_notice, text) ==
    IF i > Len(targets) THEN out
    ELSE LET target == targets[i]
             o == IF Len(target) = 0 THEN out
                  ELSE IF target[1] = "#"
                  THEN forward_channel_message(channels, out, s, target, is_notice)
                  ELSE IF target[1] \in {"!", "&", "+"}
                  THEN send_numeric_reply(out, s, "403")
                  ELSE IF is_nick_mapped(target)
                  THEN forward_message(out, s, target, is_notice, text)
                  ELSE send_numeric_reply(out, s, "401")
         IN  privmsg_targets(o, s, targets, i + 1, is_notice, text)

on_privmsg(s, params, is_notice) ==
    IF Len(params) < 1 THEN send_numeric_reply(NoSent, s, "411")
    ELSE IF Len(params) < 2 THEN send_numeric_reply(NoSent, s, "412")
    ELSE privmsg_targets(NoSent, s, split(params[1], ","), 1, is_notice, params[2])

(***************************************************************************)
(* The handlers of client.rs as functions of the state                     *)
(***************************************************************************)
HandlerState(chs, cc, out) == [channels |-> chs, cc |-> cc, out |-> out]

\* on_join, one target of the list
join_target(st, s, target, pass) ==
    IF Len(target) = 0 THEN st
    ELSE LET chs == IF ~is_channel_mapped(st.channels, target)
                    THEN create_channel(st.channels, target)
                    ELSE st.channels
             r == join_channel(chs, st.out, s, target, pass)
         IN  IF r.ok
             THEN HandlerState(r.channels, st.cc \cup {target},
                               send_names(r.channels, r.out, s, target))
             ELSE HandlerState(r.channels, st.cc, r.out)

RECURSIVE join_targets(_, _, _, _, _)
join_targets(st, s, targets, passwords, i) ==
    IF i > Len(targets) THEN st
    ELSE join_targets(
             join_target(st, s, targets[i],
                         IF i <= Len(passwords) THEN passwords[i] ELSE <<>>),
             s, targets, passwords, i + 1)

\* on_join with target "0": every channel of the client's set is parted, then
\* the set is cleared.  The set is walked in some order; the order decides
\* only the order of the PART lines.
RECURSIVE part_all(_, _, _)
part_all(st, s, names) ==
    IF names = {} THEN st
    ELSE LET c == CHOOSE x \in names : TRUE
             r == part_channel(st.channels, st.out, s, c)
         IN  part_all(HandlerState(r.channels, st.cc, r.out), s, names \ {c})

on_join(st, s, params) ==
    IF params[1] = <<"0">>
    THEN LET r == part_all(st, s, st.cc) IN HandlerState(r.channels, {}, r.out)
    ELSE join_targets(st, s, split(params[1], ","),
                      IF Len(params) > 1 THEN split(params[2], ",") ELSE <<>>, 1)

\* on_part, one target of the list
part_target(st, s, target) ==
    IF Len(target) = 0 THEN st
    ELSE IF ~is_channel_mapped(st.channels, target)
    THEN HandlerState(st.channels, st.cc, send_numeric_reply(st.out, s, "403"))
    ELSE IF ~has_channel_participant(st.channels, target, nick[s])
    THEN HandlerState(st.channels, st.cc, send_numeric_reply(st.out, s, "442"))
    ELSE LET r == part_channel(st.channels, st.out, s, target)
         IN  HandlerState(r.channels,
                          IF r.ok THEN st.cc \ {target} ELSE st.cc, r.out)

RECURSIVE part_targets(_, _, _, _)
part_targets(st, s, targets, i) ==
    IF i > Len(targets) THEN st
    ELSE part_targets(part_target(st, s, targets[i]), s, targets, i + 1)

on_part(st, s, params) ==
    IF Len(params) < 1
    THEN HandlerState(st.channels, st.cc, send_numeric_reply(st.out, s, "461"))
    ELSE part_targets(st, s, split(params[1], ","), 1)

\* on_kick, one user of one target.  After a kick that succeeded the handler
\* removes the kicker's nick from the kicker's own channel set.
kick_user(st, s, target, usr) ==
    IF ~has_channel_participant(st.channels, target, usr)
    THEN HandlerState(st.channels, st.cc, send_numeric_reply(st.out, s, "441"))
    ELSE LET r == kick_channel(st.channels, st.out, s, target, usr)
         IN  HandlerState(r.channels,
                          IF r.ok THEN st.cc \ {nick[s]} ELSE st.cc, r.out)

RECURSIVE kick_users(_, _, _, _, _)
kick_users(st, s, target, users, i) ==
    IF i > Len(users) THEN st
    ELSE kick_users(kick_user(st, s, target, users[i]), s, target, users, i + 1)

kick_pair(st, s, target, usr) ==
    IF ~is_channel_mapped(st.channels, target)
    THEN HandlerState(st.channels, st.cc, send_numeric_reply(st.out, s, "403"))
    ELSE IF ~has_channel_participant(st.channels, target, nick[s])
    THEN HandlerState(st.channels, st.cc, send_numeric_reply(st.out, s, "442"))
    ELSE kick_user(st, s, target, usr)

RECURSIVE kick_pairs(_, _, _, _, _)
kick_pairs(st, s, targets, users, i) ==
    IF i > Len(targets) THEN st
    ELSE kick_pairs(kick_pair(st, s, targets[i], users[i]), s, targets, users, i + 1)

on_kick(st, s, params) ==
    IF Len(params) < 2
    THEN HandlerState(st.channels, st.cc, send_numeric_reply(st.out, s, "461"))
    ELSE
    LET targets == split(params[1], ",")
        users == split(params[2], ",")
    IN  IF Len(targets) = 1 /\ Len(users) > 0
        THEN LET target == targets[1] IN
             IF Len(target) = 0 THEN st
             ELSE IF ~is_channel_mapped(st.channels, target)
             THEN HandlerState(st.channels, st.cc,
                               send_numeric_reply(st.out, s, "403"))
             ELSE IF ~has_channel_participant(st.channels, target, nick[s])
             THEN HandlerState(st.channels, st.cc,
                               send_numeric_reply(st.out, s, "442"))
             ELSE kick_users(st, s, target, users, 1)
        ELSE IF Len(targets) = Len(users)
        THEN kick_pairs(st, s, targets, users, 1)
        ELSE st

(***************************************************************************)
(* Inputs: the parsed messages a client may send                           *)
(***************************************************************************)
NickA == <<"a">>
NickB == <<"B">>
NickC == <<"c">>
NickBad == <<"a", "!">>
NickLong == Repeat("x", MaxNickLen + 1)
UserU == <<"u">>
Star == <<"*">>
ChanF == <<"#", "F">>
Chanf == <<"#", "f">>
Zero == <<"0">>

ValidNicks == {NickA, NickB}
NickInputs == {<<>>, <<NickA>>, <<NickB>>, <<NickBad>>, <<NickLong>>, << <<>> >>}
NickChanges == {<<NickA>>, <<NickB>>, <<NickC>>}
UserInputs == {<<UserU>>, <<UserU, Zero, Star, UserU>>, << <<>>, Zero, Star, UserU>>}
PassInputs == {<<>>, <<UserU>>}
JoinInputs == {<<Zero>>, <<ChanF>>, <<Chanf>>}
PartInputs == {<<>>, <<Chanf>>}
KickInputs == {<<Chanf>>} \cup {<<Chanf, n>> : n \in ValidNicks}
Causes == {"EOF", "Read Error", "Parse Error"}

\* The nick a session registers under where the nick is not the subject
NickOf(s) == IF s = 1 THEN NickA ELSE NickB
PrefixB == NickB \o <<"!">> \o UserU \o <<"@", "h">>
One == <<"1">>
KeyX == <<"x">>
OperName == <<"r">>
OperPass == <<"p">>
Letters(sign, letter) == <<sign, letter>>
ModeInputs ==
    {<<Chanf, Letters("+", "l"), One>>, <<Chanf, Letters("-", "l")>>,
     <<Chanf, Letters("+", "i")>>, <<Chanf, Letters("+", "b"), PrefixB>>,
     <<Chanf, Letters("+", "k"), KeyX>>}
OperInputs == {<<OperName, OperPass>>, <<OperName, KeyX>>}
OperOf(s) == IF s = 1 THEN {<<OperName, OperPass>>} ELSE {<<OperName, KeyX>>}
InviteInputs == {<<NickB, Chanf>>}
RoleLetters == {"q", "a", "o", "h", "v"}
\* every role letter for one nick, the operator letter for the other
RoleInputs ==
    {<<Chanf, Letters(sign, letter), NickB>> :
        sign \in {"+", "-"}, letter \in RoleLetters}
    \cup {<<Chanf, Letters(sign, "o"), NickA>> : sign \in {"+", "-"}}
\* MODE <own nick> -o gives the server operator flag up
DeoperInputs == {<<NickA, Letters("-", "o")>>, <<NickB, Letters("-", "o")>>}
Text == <<"x">>
MessageModeInputs ==
    {<<Chanf, Letters(sign, letter)>> : sign \in {"+", "-"}, letter \in {"m", "n"}}
    \cup {<<Chanf, Letters("+", "v"), NickB>>}
ChannelMessageInputs == {<<Chanf, Text>>}
NickService == <<"N", "i", "c", "k", "S", "e", "r", "v">>
ServiceNickInputs == {<<NickA>>, <<NickServKey>>, <<NickService>>}
ServiceMessageInputs ==
    {<<NickService, Help>>, <<NickServKey, Help>>, <<NickServKey, Text>>, <<NickA, Text>>}
AwayInputs == {<<>>, <<Text>>}
PrivateMessageInputs == {<<NickA, Text>>, <<NickB, Text>>}
\* MODE <own nick> +o and +O ask for the flag
GrantInputs == {<<NickA, Letters("+", "o")>>, <<NickB, Letters("+", "O")>>}
KickNickInputs == {<<Chanf, NickA>>, <<Chanf, NickB>>}
\* TOPIC reads and writes under both spellings of the channel name
TopicInputs == {<<>>, <<Chanf>>, <<ChanF>>, <<Chanf, Text>>, <<ChanF, Text>>}
TopicModeInputs == {<<Chanf, Letters(sign, "t")>> : sign \in {"+", "-"}}
\* the nicks a session may take: the first session gives its first nick up
\* for another, the second session takes the nick that has come free
TopicNicks(s) == IF s = 1 THEN {<<NickA>>, <<NickC>>} ELSE {<<NickA>>}
\* mode strings whose letters take the parameters in turn
Five == <<"5">>
ParamModeInputs ==
    {<<Chanf, <<"-", "k", "+", "l">>, Five>>, <<Chanf, <<"-", "l", "+", "l">>, Five>>,
     <<Chanf, <<"+", "m", "l">>, One>>, <<Chanf, <<"-", "m", "l">>>>,
     <<Chanf, <<"+", "l", "b">>, One, PrefixB>>, <<Chanf, <<"-", "b">>, PrefixB>>}
\* ban and exception masks: the prefix of session 2 literally, and two
\* masks with wildcards that cover it
MaskQ == <<"?", "!">> \o UserU \o <<"@", "h">>
MaskStar == <<"*", "!", "*", "@", "*">>
BanInputs ==
    {<<Chanf, Letters(sign, letter), mask>> :
        sign \in {"+", "-"}, letter \in {"b", "e"}, mask \in {PrefixB, MaskQ}}
    \cup {<<Chanf, Letters("+", "b"), MaskStar>>}
\* what is said to NickServ: the words with one space between them
RECURSIVE Sentence(_)
Sentence(words) ==
    IF Len(words) = 1 THEN words[1]
    ELSE words[1] \o <<" ">> \o Sentence(Tail(words))
NickServInputs ==
    {<<NickServKey, Sentence(words)>> :
        words \in {<<Register, NickA, KeyX>>, <<Identify, NickA, KeyX>>,
                   <<Identify, NickA, OperPass>>, <<Logout>>, <<Drop, NickA, KeyX>>}}
\* the nicks of the sessions: the first holds the name of the service, the
\* second a nick it registers and one it changes to
ServiceUsers(s) == IF s = 1 THEN {<<NickServKey>>} ELSE {<<NickA>>, <<NickC>>}
\* MODE without a parameter, with an empty target, and for the own nick
BareModeInputs == {<<>>, << <<>> >>, <<NickA>>}
\* INVITE of either nick the first session may hold, and one without a channel
InviteNickInputs == {<<NickA, Chanf>>, <<NickC, Chanf>>, <<NickC>>}
\* LIST without and with a channel, and the MODE that asks for the flags
ListInputs == {<<>>, <<Chanf>>, <<Chanf, NickA>>}
SecretModeInputs ==
    {<<Chanf>>} \cup {<<Chanf, Letters(sign, "s")>> : sign \in {"+", "-"}}
\* the seconds since the epoch that SystemTime::now() may give
Times == 1..MaxTime

(***************************************************************************)
(* Client::on_message: the two dispatch tables                             *)
(***************************************************************************)
Registration == {"CAP", "PASS", "NICK", "USER"}
Known == Registration \cup
         {"OPER", "QUIT", "JOIN", "PART", "TOPIC", "NAMES", "LIST", "INVITE",
          "KICK", "PRIVMSG", "NOTICE", "MOTD", "VERSION", "STATS", "TIME",
          "REHASH", "DIE", "RESTART", "SUMMON", "USERS", "WHO", "WHOIS",
          "WHOWAS", "MODE", "PING", "PONG", "AWAY", "USERHOST", "ISON"}
Commands == {"CAP", "PASS", "NICK", "USER", "JOIN", "PRIVMSG", "FOO"}

on_message_ungated(s, command) ==
    IF command \in Known THEN command ELSE "ErrUnknownCommand"

on_message(s, command) ==
    IF ~registered[s]
    THEN IF command \in Registration THEN command ELSE "ErrNotRegistered"
    ELSE IF command \in Known THEN command ELSE "ErrUnknownCommand"

(***************************************************************************)
(* Initial state: Server::new                                              *)
(***************************************************************************)
MotdInputs == {<<FALSE>>, <<TRUE, <<"l", "l">> >>}

\* Client.identified of a new session: the services read and write the
\* field, client.rs does not show it; a new session is not identified
identified_new == [s \in Sessions |-> FALSE]

InitState(schedule, motds) ==
    /\ serial = schedule
    /\ clients = EmptyMap
    /\ clients_pending = <<>>
    /\ channels = EmptyMap
    /\ nick_history = EmptyMap
    /\ motd \in motds
    /\ accepting = NoClient
    /\ task = [s \in Sessions |-> "none"]
    /\ pc = [s \in Sessions |-> "idle"]
    /\ arg = [s \in Sessions |-> <<>>]
    /\ idx = [s \in Sessions |-> 0]
    /\ held = [s \in Sessions |-> NoClient]
    /\ nick = [s \in Sessions |-> <<>>]
    /\ user = [s \in Sessions |-> <<>>]
    /\ password = [s \in Sessions |-> <<>>]
    /\ registered = [s \in Sessions |-> FALSE]
    /\ operator = [s \in Sessions |-> FALSE]
    /\ client_channels = [s \in Sessions |-> {}]
    /\ writer = [s \in Sessions |-> FALSE]
    /\ sent = NoSent
    /\ last = <<NoClient, "new", <<>> >>
    /\ user_accepted = [s \in Sessions |-> FALSE]
    /\ welcomes = [s \in Sessions |-> 0]
    /\ nick_trail = [s \in Sessions |-> <<>>]
    /\ away_message = [s \in Sessions |-> <<>>]
    /\ operators = {}
    /\ received_pong = [s \in Sessions |-> TRUE]
    /\ pinger = [s \in Sessions |-> "none"]
    /\ channels_mutex = NoClient
    /\ clients_mutex = NoClient
    /\ identified = identified_new
    /\ nickserv_nicks = EmptyMap

Init == InitState(TRUE, MotdInputs)
\* The message of the day is read by complete_registration only: the
\* specifications about channels and about interleavings start without one.
InitChannels == InitState(TRUE, {<<FALSE>>})
InitInterleaved == InitState(FALSE, {<<FALSE>>})

\* Under the serial schedule a step is taken only while no other reader is
\* inside a handler and the acceptor is between two connections.
Quiet(s) ==
    /\ accepting \in {NoClient, s}
    /\ \A t \in Sessions \ {s} : pc[t] = "idle"

Scheduled(s) == serial => Quiet(s) /\ accepting = NoClient

(***************************************************************************)
(* Server::accept: the tasks of a connection are spawned before the        *)
(* session is pushed to clients_pending                                    *)
(***************************************************************************)
AcceptSpawn(s) ==
    /\ accepting = NoClient
    /\ serial => \A t \in Sessions : pc[t] = "idle"
    /\ task[s] = "none"
    /\ \A t \in Sessions : t < s => task[t] # "none"
    /\ accepting' = s
    /\ task' = [task EXCEPT ![s] = "run"]
    /\ writer' = [writer EXCEPT ![s] = TRUE]
    /\ sent' = NoSent
    /\ pinger' = [pinger EXCEPT ![s] = "run"]
    /\ last' = <<s, "accept", <<>> >>
    /\ UNCHANGED <<server_vars, serial, pc, arg, idx, held, nick, user, password,
                   registered, operator, client_channels, history_vars,
                   away_message, operators, received_pong, lock_vars,
                   services_vars>>

AcceptPush ==
    /\ accepting # NoClient
    /\ clients_pending' = Append(clients_pending, accepting)
    /\ accepting' = NoClient
    /\ sent' = NoSent
    /\ last' = <<accepting, "push", <<>> >>
    /\ UNCHANGED <<clients, channels, nick_history, motd, serial, task, pc, arg,
                   idx, held, client_vars, history_vars,
                   other_vars>>

\* The reader is between two lines: it can take the next one.
Running(s) == task[s] = "run" /\ pc[s] = "idle" /\ Scheduled(s)
Inside(s, where) == task[s] = "run" /\ pc[s] \in where /\ Scheduled(s)

\* No task is inside a block that holds the mutex of the clients map.
ClientsFree == clients_mutex = NoClient

(***************************************************************************)
(* Registration: PASS, NICK, USER                                          *)
(***************************************************************************)
HistoryRoom(n) ==
    IF n \in DOMAIN nick_history THEN Len(nick_history[n]) < MaxHistory ELSE TRUE

Welcome(out, s) ==
    send_motd(send_numeric_reply(send_numeric_reply(
        send_numeric_reply(out, s, "001"), s, "002"), s, "003"), s)

\* Client::complete_registration, for the nick n and the user u just stored
complete_registration(s, n, u, out) ==
    /\ registered' = [registered EXCEPT ![s] = TRUE]
    /\ sent' = Welcome(out, s)
    /\ nick_history' = append_nick_history(nick_history, n, u)
    /\ welcomes' = [welcomes EXCEPT ![s] = @ + 1]
    /\ nick_trail' = [nick_trail EXCEPT ![s] = <<n>>]

RecvCap(s) ==
    /\ Running(s)
    /\ on_message(s, "CAP") = "CAP"
    /\ sent' = NoSent
    /\ last' = <<s, "CAP", <<>> >>
    /\ UNCHANGED <<server_vars, client_vars, task_vars, history_vars,
                   other_vars>>

RecvPass(s, inputs) ==
    \E params \in inputs :
        /\ Running(s)
        /\ on_message(s, "PASS") = "PASS"
        /\ last' = <<s, "PASS", params>>
        /\ IF Len(params) < 1
           THEN sent' = send_numeric_reply(NoSent, s, "461") /\ UNCHANGED password
           ELSE IF Len(nick[s]) > 0 \/ registered[s]
           THEN sent' = send_numeric_reply(NoSent, s, "462") /\ UNCHANGED password
           ELSE sent' = NoSent /\ password' = [password EXCEPT ![s] = params[1]]
        /\ UNCHANGED <<server_vars, task_vars, nick, user, registered, operator,
                       client_channels, writer, history_vars,
                   other_vars>>

RecvUser(s, inputs) ==
    \E params \in inputs :
        /\ Running(s)
        /\ on_message(s, "USER") = "USER"
        /\ last' = <<s, "USER", params>>
        /\ IF registered[s]
           THEN /\ sent' = send_numeric_reply(NoSent, s, "462")
                /\ UNCHANGED <<user, registered, nick_history, history_vars>>
           ELSE IF Len(params) < 4
           THEN /\ sent' = send_numeric_reply(NoSent, s, "461")
                /\ UNCHANGED <<user, registered, nick_history, history_vars>>
           ELSE /\ user' = [user EXCEPT ![s] = params[1]]
                /\ user_accepted' = [user_accepted EXCEPT ![s] = TRUE]
                /\ IF Len(nick[s]) # 0
                   THEN /\ HistoryRoom(nick[s])
                        /\ complete_registration(s, nick[s], params[1], NoSent)
                   ELSE /\ sent' = NoSent
                        /\ UNCHANGED <<registered, nick_history, welcomes, nick_trail>>
        /\ UNCHANGED <<clients, clients_pending, channels, motd, task_vars, nick,
                       password, operator, client_channels, writer,
                   other_vars>>

\* on_nick up to the decision to take the nick: is_nick_mapped, is_nick_valid
NickBegin(s, inputs) ==
    \E params \in inputs :
        /\ Running(s)
        /\ ClientsFree
        /\ on_message(s, "NICK") = "NICK"
        /\ last' = <<s, "NICK", params>>
        /\ IF Len(params) = 0
           THEN sent' = send_numeric_reply(NoSent, s, ErrNoNicknameGiven) /\ UNCHANGED <<pc, arg>>
           ELSE IF is_nick_mapped(params[1])
           THEN sent' = send_numeric_reply(NoSent, s, ErrNicknameInUse) /\ UNCHANGED <<pc, arg>>
           ELSE IF ~is_nick_valid(params[1])
           THEN sent' = send_numeric_reply(NoSent, s, ErrErroneousNickname) /\ UNCHANGED <<pc, arg>>
           ELSE /\ HistoryRoom(IF Len(nick[s]) = 0 THEN params[1] ELSE nick[s])
                /\ sent' = NoSent
                /\ pc' = [pc EXCEPT ![s] = IF Len(nick[s]) = 0 THEN "map_find"
                                                                ELSE "remap"]
                /\ arg' = [arg EXCEPT ![s] = params[1]]
        /\ UNCHANGED <<server_vars, client_vars, serial, accepting, task, idx, held,
                       history_vars,
                   other_vars>>

Panic(s) ==
    /\ task' = [task EXCEPT ![s] = "panic"]
    /\ pc' = [pc EXCEPT ![s] = "idle"]
    /\ arg' = [arg EXCEPT ![s] = <<>>]
    /\ idx' = [idx EXCEPT ![s] = 0]
    /\ held' = [held EXCEPT ![s] = NoClient]

\* Server::map_nick: the position of the client in clients_pending
MapFind(s) ==
    /\ Inside(s, {"map_find"})
    /\ sent' = NoSent
    /\ last' = <<s, "NICK", <<arg[s]>> >>
    /\ IF \E i \in 1..Len(clients_pending) : clients_pending[i] = s
       THEN /\ idx' = [idx EXCEPT ![s] =
                          CHOOSE i \in 1..Len(clients_pending) :
                              /\ clients_pending[i] = s
                              /\ \A j \in 1..(i - 1) : clients_pending[j] # s]
            /\ pc' = [pc EXCEPT ![s] = "map_remove"]
            /\ UNCHANGED <<task, arg, held>>
       ELSE Panic(s)
    /\ UNCHANGED <<server_vars, client_vars, serial, accepting, history_vars,
                   other_vars>>

\* Server::map_nick: clients_pending.remove(index), under a lock of its own
MapRemove(s) ==
    /\ Inside(s, {"map_remove"})
    /\ sent' = NoSent
    /\ last' = <<s, "NICK", <<arg[s]>> >>
    /\ IF idx[s] <= Len(clients_pending)
       THEN /\ held' = [held EXCEPT ![s] = clients_pending[idx[s]]]
            /\ clients_pending' = SubSeq(clients_pending, 1, idx[s] - 1) \o
                                  SubSeq(clients_pending, idx[s] + 1,
                                         Len(clients_pending))
            /\ pc' = [pc EXCEPT ![s] = "map_insert"]
            /\ idx' = [idx EXCEPT ![s] = 0]
            /\ UNCHANGED <<task, arg>>
       ELSE Panic(s) /\ UNCHANGED clients_pending
    /\ UNCHANGED <<clients, channels, nick_history, motd, client_vars, serial,
                   accepting, history_vars,
                   other_vars>>

\* Server::map_nick: clients.insert(nick, c)
MapInsert(s) ==
    /\ Inside(s, {"map_insert"})
    /\ ClientsFree
    /\ sent' = NoSent
    /\ last' = <<s, "NICK", <<arg[s]>> >>
    /\ clients' = MapPut(clients, arg[s], held[s])
    /\ held' = [held EXCEPT ![s] = NoClient]
    /\ pc' = [pc EXCEPT ![s] = "set_mapped"]
    /\ UNCHANGED <<clients_pending, channels, nick_history, motd, client_vars,
                   serial, accepting, task, arg, idx, history_vars,
                   other_vars>>

\* on_nick with a nick already set: append_nick_history, then the first look
\* of Server::remap_nick at the registry
Remap(s) ==
    /\ Inside(s, {"remap"})
    /\ sent' = NoSent
    /\ last' = <<s, "NICK", <<arg[s]>> >>
    /\ nick_history' = append_nick_history(nick_history, nick[s], user[s])
    /\ IF nick[s] \in DOMAIN clients
       THEN pc' = [pc EXCEPT ![s] = "remap_remove"] /\ UNCHANGED <<task, arg, idx, held>>
       ELSE Panic(s)
    /\ UNCHANGED <<clients, clients_pending, channels, motd, client_vars,
                   serial, accepting, history_vars,
                   other_vars>>

\* Server::remap_nick: clients.remove(old_nick)
RemapRemove(s) ==
    /\ Inside(s, {"remap_remove"})
    /\ sent' = NoSent
    /\ last' = <<s, "NICK", <<arg[s]>> >>
    /\ held' = [held EXCEPT ![s] = IF nick[s] \in DOMAIN clients
                                   THEN clients[nick[s]] ELSE NoClient]
    /\ clients' = MapDel(clients, nick[s])
    /\ pc' = [pc EXCEPT ![s] = "remap_insert"]
    /\ UNCHANGED <<clients_pending, channels, nick_history, motd, client_vars,
                   serial, accepting, task, arg, idx, history_vars,
                   other_vars>>

\* Server::remap_nick: clients.insert(nick, client) when the remove gave one
RemapInsert(s) ==
    /\ Inside(s, {"remap_insert"})
    /\ sent' = NoSent
    /\ last' = <<s, "NICK", <<arg[s]>> >>
    /\ clients' = IF held[s] # NoClient THEN MapPut(clients, arg[s], held[s])
                                        ELSE clients
    /\ held' = [held EXCEPT ![s] = NoClient]
    /\ pc' = [pc EXCEPT ![s] = "set_remapped"]
    /\ UNCHANGED <<clients_pending, channels, nick_history, motd, client_vars,
                   serial, accepting, task, arg, idx, history_vars,
                   other_vars>>

\* on_nick: the nick field is written, and registration completes when the
\* nick was mapped for the first time and a user name is stored
SetNick(s) ==
    /\ Inside(s, {"set_mapped", "set_remapped"})
    /\ last' = <<s, "NICK", <<arg[s]>> >>
    /\ nick' = [nick EXCEPT ![s] = arg[s]]
    /\ pc' = [pc EXCEPT ![s] = "idle"]
    /\ arg' = [arg EXCEPT ![s] = <<>>]
    /\ IF pc[s] = "set_mapped" /\ ~registered[s] /\ Len(user[s]) # 0
       THEN complete_registration(s, arg[s], user[s], NoSent)
       ELSE /\ sent' = NoSent
            /\ nick_trail' = [nick_trail EXCEPT ![s] =
                                 IF registered[s]
                                 THEN LastThree(@ \o <<arg[s]>>)
                                 ELSE @]
            /\ UNCHANGED <<registered, nick_history, welcomes>>
    /\ UNCHANGED <<clients, clients_pending, channels, motd, serial, accepting,
                   task, idx, held, user, password, operator, client_channels, writer,
                   user_accepted,
                   other_vars>>

(***************************************************************************)
(* Commands of a registered session                                        *)
(***************************************************************************)
Handled(s, st) ==
    /\ channels' = st.channels
    /\ client_channels' = [client_channels EXCEPT ![s] = st.cc]
    /\ sent' = st.out

Start(s) == HandlerState(channels, client_channels[s], NoSent)

\* A handler stuck inside Channel::toggle_modes keeps the mutex of the
\* channels map: no other handler gets past its own lock().await on it.
ChannelsFree ==
    /\ \A t \in Sessions : task[t] # "hung"
    /\ channels_mutex = NoClient


\* on_join indexes params[0] without a length check
RecvJoin(s, inputs) ==
    \E params \in inputs :
        /\ Running(s)
        /\ ChannelsFree
        /\ on_message(s, "JOIN") = "JOIN"
        \* observed with the registry and the channel set the handler found
        /\ last' = <<s, "JOIN", params, Start(s)>>
        /\ Handled(s, on_join(Start(s), s, params))
        /\ UNCHANGED <<clients, clients_pending, nick_history, motd, task_vars,
                       nick, user, password, registered, operator, writer,
                       history_vars,
                   other_vars>>

\* on_join at the grain of its lock acquisitions, for a JOIN that names one
\* channel: is_channel_mapped, create_channel and join_channel each take
\* the mutex of the channels map and give it back before the next one.
JoinBegin(s, inputs) ==
    \E params \in inputs :
        /\ Running(s)
        /\ ChannelsFree
        /\ on_message(s, "JOIN") = "JOIN"
        /\ Len(params) > 0 /\ params[1] # <<"0">> /\ Len(params[1]) > 0
        /\ last' = <<s, "JOIN", params>>
        /\ sent' = NoSent
        /\ arg' = [arg EXCEPT ![s] = params[1]]
        /\ pc' = [pc EXCEPT ![s] = IF is_channel_mapped(channels, params[1])
                                   THEN "join_enter" ELSE "join_create"]
        /\ UNCHANGED <<server_vars, client_vars, serial, accepting, task, idx, held,
                       history_vars,
                   other_vars>>

JoinCreate(s) ==
    /\ Inside(s, {"join_create"})
    /\ ChannelsFree
    /\ channels' = create_channel(channels, arg[s])
    /\ pc' = [pc EXCEPT ![s] = "join_enter"]
    /\ sent' = NoSent
    /\ UNCHANGED <<clients, clients_pending, nick_history, motd, client_vars, serial,
                   accepting, task, arg, idx, held, last, history_vars,
                   other_vars>>

JoinEnter(s) ==
    /\ Inside(s, {"join_enter"})
    /\ ChannelsFree
    /\ LET r == join_channel(channels, NoSent, s, arg[s], <<>>) IN
           /\ channels' = r.channels
           /\ sent' = r.out
           /\ pc' = [pc EXCEPT ![s] = IF r.ok THEN "join_names" ELSE "idle"]
           /\ arg' = [arg EXCEPT ![s] = IF r.ok THEN @ ELSE <<>>]
    /\ UNCHANGED <<clients, clients_pending, nick_history, motd, client_vars, serial,
                   accepting, task, idx, held, last, history_vars,
                   other_vars>>

JoinNames(s) ==
    /\ Inside(s, {"join_names"})
    /\ ChannelsFree
    /\ client_channels' = [client_channels EXCEPT ![s] = @ \cup {arg[s]}]
    /\ sent' = send_names(channels, NoSent, s, arg[s])
    /\ pc' = [pc EXCEPT ![s] = "idle"]
    /\ arg' = [arg EXCEPT ![s] = <<>>]
    /\ UNCHANGED <<server_vars, nick, user, password, registered, operator, writer,
                   serial, accepting, task, idx, held, last, history_vars,
                   other_vars>>

\* The first block of part_channel, which holds the mutex of the channels
\* map from the lookup to the end of the `if let`: the participant is
\* removed and the PART lines are written; the channel stays in the map.
part_block(chs, out, s, channel_name) ==
    LET key == to_lowercase(channel_name) IN
    IF key \in DOMAIN chs /\ has_participant(chs[key], nick[s])
    THEN LET channel == Channel_remove(chs[key], nick[s])
             message == Line("PART", get_prefix(s), channel_name)
             o1 == send_to_nicks(out, DOMAIN channel.participants, message)
         IN  JoinResult([chs EXCEPT ![key] = channel], send_raw(o1, s, message), TRUE)
    ELSE JoinResult(chs, out, FALSE)

\* on_part at the grain of its lock acquisitions, for a PART that names one
\* channel: is_channel_mapped, has_channel_participant, the first block of
\* part_channel and its removal of the emptied channel each take the mutex
\* of the channels map and give it back before the next one.
PartBegin(s, inputs) ==
    \E params \in inputs :
        /\ Running(s)
        /\ ChannelsFree
        /\ on_message(s, "PART") = "PART"
        /\ Len(params) > 0 /\ Len(params[1]) > 0
        /\ last' = <<s, "PART", params>>
        /\ LET mapped == is_channel_mapped(channels, params[1]) IN
               /\ sent' = IF mapped THEN NoSent
                          ELSE send_numeric_reply(NoSent, s, "403")
               /\ arg' = [arg EXCEPT ![s] = IF mapped THEN params[1] ELSE <<>>]
               /\ pc' = [pc EXCEPT ![s] = IF mapped THEN "part_check" ELSE "idle"]
        /\ UNCHANGED <<server_vars, client_vars, serial, accepting, task, idx, held,
                       history_vars,
                   other_vars>>

PartCheck(s) ==
    /\ Inside(s, {"part_check"})
    /\ ChannelsFree
    /\ LET on == has_channel_participant(channels, arg[s], nick[s]) IN
           /\ sent' = IF on THEN NoSent ELSE send_numeric_reply(NoSent, s, "442")
           /\ arg' = [arg EXCEPT ![s] = IF on THEN @ ELSE <<>>]
           /\ pc' = [pc EXCEPT ![s] = IF on THEN "part_leave" ELSE "idle"]
    /\ UNCHANGED <<server_vars, client_vars, serial, accepting, task, idx, held, last,
                   history_vars,
                   other_vars>>

\* without a removal to make, part_channel returns and the handler takes
\* the name out of its own channel set
PartLeave(s) ==
    /\ Inside(s, {"part_leave"})
    /\ ChannelsFree
    /\ LET r == part_block(channels, NoSent, s, arg[s])
           key == to_lowercase(arg[s])
           remove == r.ok /\ Cardinality(DOMAIN r.channels[key].participants) = 0
       IN  /\ channels' = r.channels
           /\ sent' = r.out
           /\ pc' = [pc EXCEPT ![s] = IF remove THEN "part_remove" ELSE "idle"]
           /\ arg' = [arg EXCEPT ![s] = IF remove THEN @ ELSE <<>>]
           /\ client_channels' = [client_channels EXCEPT ![s] =
                                      IF r.ok /\ ~remove THEN @ \ {arg[s]} ELSE @]
    /\ UNCHANGED <<clients, clients_pending, nick_history, motd, nick, user, password,
                   registered, operator, writer, serial, accepting, task, idx, held,
                   last, history_vars,
                   other_vars>>

\* `self.channels.lock().await.remove(..)` takes out whatever channel the
\* map holds under the name by now
PartRemove(s) ==
    /\ Inside(s, {"part_remove"})
    /\ ChannelsFree
    /\ channels' = MapDel(channels, to_lowercase(arg[s]))
    /\ client_channels' = [client_channels EXCEPT ![s] = @ \ {arg[s]}]
    /\ sent' = NoSent
    /\ pc' = [pc EXCEPT ![s] = "idle"]
    /\ arg' = [arg EXCEPT ![s] = <<>>]
    /\ UNCHANGED <<clients, clients_pending, nick_history, motd, nick, user, password,
                   registered, operator, writer, serial, accepting, task, idx, held,
                   last, history_vars,
                   other_vars>>

\* get_channel_topic looks the channel up under the name as typed
get_channel_topic(chs, out, s, channel_name) ==
    IF channel_name \in DOMAIN chs
    THEN LET topic == chs[channel_name].topic IN
         IF Len(topic.text) = 0
         THEN send_numeric_reply(out, s, "331")
         ELSE send_raw(send_raw(out, s, Line("332", ServerName,
                                            <<channel_name, topic.text>>)),
                       s, Line("333", ServerName,
                               <<channel_name, topic.set_by, topic.set_at>>))
    ELSE send_numeric_reply(out, s, "403")

\* Channel::set_topic
set_topic(channel, sender, text, now) ==
    [channel EXCEPT !.topic = [text |-> text, set_by |-> sender, set_at |-> now]]

\* Channel::is_operator(nick): false for a nick that is no participant
Channel_is_operator(channel, n) ==
    n \in DOMAIN channel.participants /\ is_operator(channel.participants[n])

\* set_channel_topic looks the channel up under the lowercased name; the
\* TOPIC line goes to every participant, the prefix of none equals a nick
set_channel_topic(chs, out, s, channel_name, text, now) ==
    LET key == to_lowercase(channel_name) IN
    IF key \notin DOMAIN chs THEN JoinResult(chs, out, FALSE)
    ELSE IF ~operator[s] /\ chs[key].modes.restrict_topic
            /\ ~Channel_is_operator(chs[key], nick[s])
    THEN JoinResult(chs, send_numeric_reply(out, s, "482"), FALSE)
    ELSE JoinResult([chs EXCEPT ![key] = set_topic(@, nick[s], text, now)],
                    send_to_nicks(out, DOMAIN chs[key].participants,
                                  Line("TOPIC", get_prefix(s), <<channel_name, text>>)),
                    TRUE)

on_topic(s, params, now) ==
    IF Len(params) < 1
    THEN JoinResult(channels, send_numeric_reply(NoSent, s, "461"), FALSE)
    ELSE IF Len(params) < 2
    THEN JoinResult(channels, get_channel_topic(channels, NoSent, s, params[1]), FALSE)
    ELSE IF has_channel_participant(channels, params[1], nick[s])
    THEN set_channel_topic(channels, NoSent, s, params[1], params[2], now)
    ELSE JoinResult(channels, send_numeric_reply(NoSent, s, "442"), FALSE)

RecvTopic(s, inputs) ==
    \E params \in inputs, now \in Times :
        /\ Running(s)
        /\ ChannelsFree
        /\ ClientsFree
        /\ on_message(s, "TOPIC") = "TOPIC"
        /\ last' = <<s, "TOPIC", params>>
        /\ LET r == on_topic(s, params, now) IN
               /\ channels' = r.channels
               /\ sent' = r.out
        /\ UNCHANGED <<clients, clients_pending, nick_history, motd, client_vars,
                       task_vars, history_vars, other_vars>>

\* Channel::get_modes_description: the letters of the flags that are set,
\* and with them the key and the limit for a caller that may see them
get_modes_description(channel, with_params) ==
    LET m == channel.modes
        Flag(b, ch) == IF b THEN <<ch>> ELSE <<>>
    IN  [letters |-> Flag(m.moderated, "m") \o Flag(m.invite_only, "i")
                     \o Flag(Len(m.password) # 0, "k") \o Flag(m.limit # 0, "l")
                     \o Flag(m.no_external_messages, "n") \o Flag(m.secret, "s")
                     \o Flag(m.restrict_topic, "t"),
         params |-> IF with_params
                    THEN (IF Len(m.password) # 0 THEN <<m.password>> ELSE <<>>)
                         \o (IF m.limit # 0 THEN <<m.limit>> ELSE <<>>)
                    ELSE <<>>]

\* send_list: one channel of the walk
list_channel(out, s, channel) ==
    IF channel.modes.secret /\ ~operator[s]
       /\ nick[s] \notin DOMAIN channel.participants
    THEN out
    ELSE send_raw(out, s,
             Line("322", ServerName,
                  <<channel.name, Cardinality(DOMAIN channel.participants),
                    get_modes_description(channel, operator[s]),
                    channel.topic.text>>))

\* the names of the argument are looked up as they were typed
RECURSIVE list_names(_, _, _, _, _)
list_names(chs, out, s, names, i) ==
    IF i > Len(names) THEN out
    ELSE IF Len(names[i]) = 0 \/ names[i] \notin DOMAIN chs
    THEN list_names(chs, out, s, names, i + 1)
    ELSE list_names(chs, list_channel(out, s, chs[names[i]]), s, names, i + 1)

\* the walk over the whole map, in the order the map gives
RECURSIVE list_all(_, _, _, _)
list_all(chs, out, s, keys) ==
    IF keys = {} THEN out
    ELSE LET k == CHOOSE c \in keys : TRUE
         IN  list_all(chs, list_channel(out, s, chs[k]), s, keys \ {k})

send_list(chs, s, names) ==
    LET o1 == send_numeric_reply(NoSent, s, "321")
        o2 == IF Len(names) > 0
              THEN list_names(chs, o1, s, split(names[1], ","), 1)
              ELSE list_all(chs, o1, s, DOMAIN chs)
    IN  send_numeric_reply(o2, s, "323")

on_list(chs, s, params) ==
    IF Len(params) > 1 /\ params[2] # ServerName
    THEN send_numeric_reply(NoSent, s, "402")
    ELSE IF Len(params) > 0
    THEN send_list(chs, s, <<params[1]>>)
    ELSE send_list(chs, s, <<>>)

RecvList(s, inputs) ==
    \E params \in inputs :
        /\ Running(s)
        /\ ChannelsFree
        /\ on_message(s, "LIST") = "LIST"
        /\ last' = <<s, "LIST", params>>
        /\ sent' = on_list(channels, s, params)
        /\ UNCHANGED <<server_vars, client_vars, task_vars, history_vars, other_vars>>

\* join_channel at the grain of its two mutexes, for a channel that is
\* mapped: the guard of the channels map is taken by the `if let` and kept
\* for its whole block; a refusal returns from inside it, an admission goes
\* on to the loop that locks the clients map for every participant.
JoinHold(s) ==
    /\ Inside(s, {"join_enter"})
    /\ ChannelsFree
    /\ IF to_lowercase(arg[s]) \in DOMAIN channels
          /\ join_channel(channels, NoSent, s, arg[s], <<>>).ok
       THEN /\ channels_mutex' = s
            /\ pc' = [pc EXCEPT ![s] = "join_send"]
            /\ sent' = NoSent
            /\ UNCHANGED <<channels, arg>>
       ELSE LET r == join_channel(channels, NoSent, s, arg[s], <<>>) IN
            /\ channels' = r.channels
            /\ sent' = r.out
            /\ pc' = [pc EXCEPT ![s] = "idle"]
            /\ arg' = [arg EXCEPT ![s] = <<>>]
            /\ UNCHANGED channels_mutex
    /\ UNCHANGED <<clients, clients_pending, nick_history, motd, client_vars, serial,
                   accepting, task, idx, held, last, history_vars,
                   away_message, operators, received_pong, pinger, clients_mutex,
                   services_vars>>

JoinSend(s) ==
    /\ Inside(s, {"join_send"})
    /\ channels_mutex = s
    /\ ClientsFree
    /\ LET r == join_channel(channels, NoSent, s, arg[s], <<>>) IN
           /\ channels' = r.channels
           /\ sent' = r.out
    /\ channels_mutex' = NoClient
    /\ pc' = [pc EXCEPT ![s] = "join_names"]
    /\ UNCHANGED <<clients, clients_pending, nick_history, motd, client_vars, serial,
                   accepting, task, arg, idx, held, last, history_vars,
                   away_message, operators, received_pong, pinger, clients_mutex,
                   services_vars>>

\* on_whois for one target, and send_whois at the grain of its mutexes: the
\* guard of the clients map is taken by the `if let` and kept for its whole
\* block; for a caller that is a server operator the block then locks the
\* channels map once for every channel of the target.
WhoisInputs == {<<>>, <<NickA>>, <<NickB>>, <<NickA, NickB>>}

WhoisHead(out, s, t) ==
    LET o1 == send_numeric_reply(out, s, "311")
        o2 == send_numeric_reply(o1, s, "312")
        o3 == IF operator[t] THEN send_numeric_reply(o2, s, "313") ELSE o2
    IN  IF Len(away_message[t]) > 0 THEN send_numeric_reply(o3, s, "301") ELSE o3

WhoisTail(out, s) ==
    send_numeric_reply(send_numeric_reply(out, s, "317"), s, "318")

WhoisBegin(s, inputs) ==
    \E params \in inputs :
        /\ Running(s)
        /\ on_message(s, "WHOIS") = "WHOIS"
        /\ last' = <<s, "WHOIS", params>>
        /\ IF Len(params) < 1
           THEN /\ sent' = send_numeric_reply(NoSent, s, ErrNoNicknameGiven)
                /\ UNCHANGED <<pc, arg, clients_mutex>>
           ELSE IF Len(params) > 1 /\ ServerName # params[1]
           THEN /\ sent' = send_numeric_reply(NoSent, s, "402")
                /\ UNCHANGED <<pc, arg, clients_mutex>>
           ELSE LET target_nick == params[Len(params)] IN
                /\ ClientsFree
                /\ IF target_nick \notin DOMAIN clients
                   THEN /\ sent' = send_numeric_reply(NoSent, s, "401")
                        /\ UNCHANGED <<pc, arg, clients_mutex>>
                   ELSE LET t == clients[target_nick] IN
                        IF operator[s] /\ client_channels[t] # {}
                        THEN /\ sent' = WhoisHead(NoSent, s, t)
                             /\ clients_mutex' = s
                             /\ arg' = [arg EXCEPT ![s] = target_nick]
                             /\ pc' = [pc EXCEPT ![s] = "whois_channels"]
                        ELSE /\ sent' = WhoisTail(WhoisHead(NoSent, s, t), s)
                             /\ UNCHANGED <<pc, arg, clients_mutex>>
        /\ UNCHANGED <<server_vars, client_vars, serial, accepting, task, idx, held,
                       history_vars, away_message, operators, received_pong,
                       pinger, channels_mutex,
                       services_vars>>

WhoisChannels(s) ==
    /\ Inside(s, {"whois_channels"})
    /\ clients_mutex = s
    /\ ChannelsFree
    /\ LET t == clients[arg[s]]
           found == client_channels[t] \cap DOMAIN channels
           o1 == IF found # {}
                 THEN send_raw(NoSent, s, Line("319", ServerName, found))
                 ELSE NoSent
       IN  sent' = WhoisTail(o1, s)
    /\ clients_mutex' = NoClient
    /\ pc' = [pc EXCEPT ![s] = "idle"]
    /\ arg' = [arg EXCEPT ![s] = <<>>]
    /\ UNCHANGED <<server_vars, client_vars, serial, accepting, task, idx, held,
                   last, history_vars, away_message, operators, received_pong,
                   pinger, channels_mutex,
                   services_vars>>

RecvPart(s, inputs) ==
    \E params \in inputs :
        /\ Running(s)
        /\ ChannelsFree
        /\ on_message(s, "PART") = "PART"
        /\ last' = <<s, "PART", params>>
        /\ Handled(s, on_part(Start(s), s, params))
        /\ UNCHANGED <<clients, clients_pending, nick_history, motd, task_vars,
                       nick, user, password, registered, operator, writer,
                       history_vars,
                   other_vars>>

RecvKick(s, inputs) ==
    \E params \in inputs :
        /\ Running(s)
        /\ ChannelsFree
        /\ on_message(s, "KICK") = "KICK"
        /\ last' = <<s, "KICK", params>>
        /\ Handled(s, on_kick(Start(s), s, params))
        /\ UNCHANGED <<clients, clients_pending, nick_history, motd, task_vars,
                       nick, user, password, registered, operator, writer,
                       history_vars,
                   other_vars>>

\* on_join and on_names without a parameter: on_join reads params[0] first
\* of all, on_names reads it for the text of its 366; the index is out of
\* bounds and the reader task panics.
RecvBare(s, commands) ==
    \E command \in commands :
        /\ Running(s)
        /\ on_message(s, command) = command
        /\ last' = <<s, command, <<>> >>
        /\ sent' = NoSent
        /\ Panic(s)
        /\ UNCHANGED <<server_vars, client_vars, serial, accepting, history_vars,
                       other_vars>>

\* on_mode: the first character of the target chooses between a channel
\* and a user; an empty target makes the slice [0..1] panic.
on_mode(s, params) ==
    LET Same(out) == [channels |-> channels, operator |-> operator[s], out |-> out,
                      hung |-> FALSE, panic |-> FALSE]
    IN  IF Len(params) < 1 THEN Same(send_numeric_reply(NoSent, s, "461"))
        ELSE LET target == params[1] IN
             IF Len(target) = 0 THEN [Same(NoSent) EXCEPT !.panic = TRUE]
             ELSE IF target[1] = "#"
             THEN LET r == handle_channel_mode(channels, NoSent, s, target,
                                               SubSeq(params, 2, Len(params)))
                  IN  [channels |-> r.channels, operator |-> operator[s],
                       out |-> r.out, hung |-> r.hung, panic |-> FALSE]
             ELSE IF target[1] \in {"!", "&", "+"}
             THEN Same(send_numeric_reply(NoSent, s, "403"))
             ELSE LET r == handle_user_mode(NoSent, s, target,
                                            SubSeq(params, 2, Len(params)))
                  IN  [channels |-> channels, operator |-> r.operator,
                       out |-> r.out, hung |-> FALSE, panic |-> FALSE]

RecvMode(s, inputs) ==
    \E params \in inputs :
        /\ Running(s)
        /\ ChannelsFree
        /\ on_message(s, "MODE") = "MODE"
        /\ last' = <<s, "MODE", params>>
        /\ LET r == on_mode(s, params) IN
               /\ channels' = r.channels
               /\ operator' = [operator EXCEPT ![s] = r.operator]
               /\ sent' = r.out
               /\ task' = [task EXCEPT ![s] = IF r.hung THEN "hung"
                                                ELSE IF r.panic THEN "panic" ELSE @]
        /\ UNCHANGED <<clients, clients_pending, nick_history, motd, serial,
                       accepting, pc, arg, idx, held, nick, user, password,
                       registered, client_channels, writer, history_vars,
                   other_vars>>

RecvOper(s, inputs) ==
    \E params \in inputs :
        /\ Running(s)
        /\ on_message(s, "OPER") = "OPER"
        /\ last' = <<s, "OPER", params>>
        /\ IF operator[s] THEN sent' = NoSent /\ UNCHANGED operator
           ELSE IF Len(params) < 2
           THEN sent' = send_numeric_reply(NoSent, s, "461") /\ UNCHANGED operator
           ELSE IF verify_operator(params[1], params[2])
           THEN /\ operator' = [operator EXCEPT ![s] = TRUE]
                /\ sent' = send_numeric_reply(NoSent, s, "381")
           ELSE sent' = send_numeric_reply(NoSent, s, "464") /\ UNCHANGED operator
        /\ UNCHANGED <<server_vars, task_vars, nick, user, password, registered,
                       client_channels, writer, history_vars,
                   other_vars>>

on_invite(s, params) ==
    LET Same(code) == [channels |-> channels,
                       out |-> send_numeric_reply(NoSent, s, code)]
    IN  IF Len(params) < 2 THEN Same("461")
        ELSE IF ~is_channel_mapped(channels, params[2]) THEN Same("403")
        ELSE IF ~has_channel_participant(channels, params[2], nick[s]) THEN Same("442")
        ELSE IF ~is_nick_mapped(params[1]) THEN Same("401")
        ELSE IF has_channel_participant(channels, params[2], params[1]) THEN Same("443")
        ELSE invite_channel(channels, NoSent, s, params[2], params[1])

RecvInvite(s, inputs) ==
    \E params \in inputs :
        /\ Running(s)
        /\ ChannelsFree
        /\ on_message(s, "INVITE") = "INVITE"
        /\ last' = <<s, "INVITE", params>>
        /\ LET r == on_invite(s, params) IN
               channels' = r.channels /\ sent' = r.out
        /\ UNCHANGED <<clients, clients_pending, nick_history, motd, task_vars,
                       client_vars, history_vars,
                   other_vars>>

\* PRIVMSG and NOTICE share on_privmsg
RecvPrivmsg(s, commands, inputs) ==
    \E command \in commands : \E params \in inputs :
        /\ Running(s)
        /\ ChannelsFree
        /\ command \in {"PRIVMSG", "NOTICE"}
        /\ on_message(s, command) = command
        /\ last' = <<s, command, params>>
        /\ sent' = on_privmsg(s, params, command = "NOTICE")
        /\ UNCHANGED <<server_vars, client_vars, task_vars, history_vars,
                   other_vars>>

\* PRIVMSG with one target and a text: on_privmsg hands the text to
\* forward_message when the target is a mapped nick, and forward_message
\* hands it to NickServ when the target is the key of that service.
RecvNickServ(s, inputs) ==
    \E params \in inputs :
        /\ Running(s)
        /\ ChannelsFree
        /\ on_message(s, "PRIVMSG") = "PRIVMSG"
        /\ Len(params) = 2
        /\ last' = <<s, "PRIVMSG", params>>
        /\ LET st == IF is_nick_mapped(params[1]) /\ params[1] = NickServKey
                     THEN nickserv_on_message(
                              ServiceState(nickserv_nicks, identified[s], NoSent),
                              s, split(params[2], " "))
                     ELSE ServiceState(nickserv_nicks, identified[s],
                                       on_privmsg(s, params, FALSE))
           IN  /\ nickserv_nicks' = st.nicks
               /\ identified' = [identified EXCEPT ![s] = st.identified]
               /\ sent' = st.out
        /\ UNCHANGED <<server_vars, client_vars, task_vars, history_vars,
                       away_message, operators, received_pong, pinger, lock_vars>>

\* on_away: without a parameter the reply is sent and nothing is stored
RecvAway(s, inputs) ==
    \E params \in inputs :
        /\ Running(s)
        /\ on_message(s, "AWAY") = "AWAY"
        /\ last' = <<s, "AWAY", params>>
        /\ IF Len(params) > 0
           THEN /\ away_message' = [away_message EXCEPT ![s] = params[1]]
                /\ sent' = send_numeric_reply(NoSent, s, "306")
           ELSE /\ sent' = send_numeric_reply(NoSent, s, "305")
                /\ UNCHANGED away_message
        /\ UNCHANGED <<server_vars, client_vars, task_vars, history_vars, operators,
                       received_pong, pinger, lock_vars,
                       services_vars>>

\* on_pong: the flag is set unless the parameters are refused
PongInputs == {<<>>, <<NickB>>, <<NickB, ServerName>>, <<NickB, NickA>>}

RecvPong(s, inputs) ==
    \E params \in inputs :
        /\ Running(s)
        /\ on_message(s, "PONG") = "PONG"
        /\ last' = <<s, "PONG", params>>
        /\ IF Len(params) < 1
           THEN /\ sent' = send_numeric_reply(NoSent, s, "409")
                /\ UNCHANGED received_pong
           ELSE IF Len(params) > 1 /\ ServerName # params[2]
           THEN /\ sent' = send_numeric_reply(NoSent, s, "402")
                /\ UNCHANGED received_pong
           ELSE /\ sent' = NoSent
                /\ received_pong' = [received_pong EXCEPT ![s] = TRUE]
        /\ UNCHANGED <<server_vars, client_vars, task_vars, history_vars,
                       away_message, operators, pinger, lock_vars,
                       services_vars>>

\* task_ping: one turn of the loop, from the look at the flag to the delay.
\* Without a PONG since the last PING the writer is taken and the loop ends;
\* nothing else of the session is touched.
Ping == Line("PING", <<>>, ServerName)

never_missed(s) == FALSE
missed_pong(s) == ~received_pong[s]

PingTick(s) ==
    /\ pinger[s] = "run"
    /\ Scheduled(s)
    /\ last' = <<s, "tick", <<>> >>
    /\ IF missed_pong(s)
       THEN /\ writer' = [writer EXCEPT ![s] = FALSE]
            /\ pinger' = [pinger EXCEPT ![s] = "done"]
            /\ sent' = NoSent
            /\ UNCHANGED received_pong
       ELSE IF registered[s]
       THEN /\ received_pong' = [received_pong EXCEPT ![s] = FALSE]
            /\ sent' = send_raw(NoSent, s, Ping)
            /\ UNCHANGED <<writer, pinger>>
       ELSE /\ sent' = NoSent
            /\ UNCHANGED <<writer, pinger, received_pong>>
    /\ UNCHANGED <<server_vars, task_vars, nick, user, password, registered,
                   operator, client_channels, history_vars, away_message,
                   operators, lock_vars,
                   services_vars>>

\* on_quit: the writer is taken; the reader goes on reading
RecvQuit(s) ==
    /\ Running(s)
    /\ ChannelsFree
    /\ on_message(s, "QUIT") = "QUIT"
    /\ last' = <<s, "QUIT", <<>> >>
    /\ sent' = broadcast_quit(NoSent, s)
    /\ writer' = [writer EXCEPT ![s] = FALSE]
    /\ UNCHANGED <<server_vars, task_vars, nick, user, password, registered,
                   operator, client_channels, history_vars,
                   other_vars>>

RecvNotRegistered(s, inputs) ==
    \E command \in inputs :
        /\ Running(s)
        /\ on_message(s, command) = "ErrNotRegistered"
        /\ last' = <<s, command, <<>> >>
        /\ sent' = send_numeric_reply(NoSent, s, ErrNotRegistered)
        /\ UNCHANGED <<server_vars, client_vars, task_vars, history_vars,
                   other_vars>>

RecvUnknown(s, inputs) ==
    \E command \in inputs :
        /\ Running(s)
        /\ on_message(s, command) = "ErrUnknownCommand"
        /\ last' = <<s, command, <<>> >>
        /\ sent' = send_numeric_reply(NoSent, s, "421")
        /\ UNCHANGED <<server_vars, client_vars, task_vars, history_vars,
                   other_vars>>

(***************************************************************************)
(* Client::task: the end of the reader loop and the teardown after it      *)
(***************************************************************************)
unmap_nick(cl, n) == MapDel(cl, n)
unmap_client(pending, s) == SelectSeq(pending, LAMBDA c : c # s)

Disconnect(s, inputs) ==
    \E cause \in inputs :
        /\ Running(s)
        /\ ChannelsFree
        /\ last' = <<s, cause, <<>> >>
        /\ sent' = IF cause = "Parse Error" THEN NoSent ELSE broadcast_quit(NoSent, s)
        /\ channels' = remove_from_channels(channels, s)
        /\ clients' = IF Len(nick[s]) # 0 THEN unmap_nick(clients, nick[s]) ELSE clients
        /\ clients_pending' = unmap_client(clients_pending, s)
        /\ task' = [task EXCEPT ![s] = "done"]
        \* the task returns and its Client goes with it
        /\ nick' = [nick EXCEPT ![s] = <<>>]
        /\ user' = [user EXCEPT ![s] = <<>>]
        /\ password' = [password EXCEPT ![s] = <<>>]
        /\ registered' = [registered EXCEPT ![s] = FALSE]
        /\ operator' = [operator EXCEPT ![s] = FALSE]
        /\ client_channels' = [client_channels EXCEPT ![s] = {}]
        /\ writer' = [writer EXCEPT ![s] = FALSE]
        /\ user_accepted' = [user_accepted EXCEPT ![s] = FALSE]
        /\ welcomes' = [welcomes EXCEPT ![s] = 0]
        /\ nick_trail' = [nick_trail EXCEPT ![s] = <<>>]
        /\ away_message' = [away_message EXCEPT ![s] = <<>>]
        \* what the pinger still writes goes to a socket that is gone; its
        \* last ticks are folded into this step
        /\ received_pong' = [received_pong EXCEPT ![s] = TRUE]
        /\ pinger' = [pinger EXCEPT ![s] = "done"]
        /\ UNCHANGED <<nick_history, motd, serial, accepting, pc, arg, idx, held,
                       operators, lock_vars,
                       services_vars>>

(***************************************************************************)
(* Specifications                                                          *)
(***************************************************************************)
\* Registration under the serial schedule: every registration command with
\* every kind of parameter, the commands of the other table, and one
\* channel to join.
Next ==
    \/ \E s \in Sessions : AcceptSpawn(s)
    \/ AcceptPush
    \/ \E s \in Sessions : RecvCap(s)
    \/ \E s \in Sessions : RecvPass(s, PassInputs)
    \/ \E s \in Sessions : RecvUser(s, UserInputs)
    \/ \E s \in Sessions : NickBegin(s, NickInputs)
    \/ \E s \in Sessions : MapFind(s)
    \/ \E s \in Sessions : MapRemove(s)
    \/ \E s \in Sessions : MapInsert(s)
    \/ \E s \in Sessions : Remap(s)
    \/ \E s \in Sessions : RemapRemove(s)
    \/ \E s \in Sessions : RemapInsert(s)
    \/ \E s \in Sessions : SetNick(s)
    \/ \E s \in Sessions : RecvJoin(s, {<<Chanf>>})
    \/ \E s \in Sessions : RecvNotRegistered(s, Commands)
    \/ \E s \in Sessions : RecvUnknown(s, Commands)

Spec == Init /\ [][Next]_vars

\* Nick changes under the serial schedule: three free nicks, one USER line.
NextHistory ==
    \/ \E s \in Sessions : AcceptSpawn(s)
    \/ AcceptPush
    \/ \E s \in Sessions : RecvUser(s, {<<UserU, Zero, Star, UserU>>})
    \/ \E s \in Sessions : NickBegin(s, NickChanges)
    \/ \E s \in Sessions : MapFind(s)
    \/ \E s \in Sessions : MapRemove(s)
    \/ \E s \in Sessions : MapInsert(s)
    \/ \E s \in Sessions : Remap(s)
    \/ \E s \in Sessions : RemapRemove(s)
    \/ \E s \in Sessions : RemapInsert(s)
    \/ \E s \in Sessions : SetNick(s)

SpecHistory == InitChannels /\ [][NextHistory]_vars

\* Channels under the serial schedule: two nicks, channel names in both
\* cases, every way a session ends.
NextChannels ==
    \/ \E s \in Sessions : AcceptSpawn(s)
    \/ AcceptPush
    \/ \E s \in Sessions : RecvUser(s, {<<UserU, Zero, Star, UserU>>})
    \/ \E s \in Sessions : NickBegin(s, {<<NickA>>, <<NickB>>})
    \/ \E s \in Sessions : MapFind(s)
    \/ \E s \in Sessions : MapRemove(s)
    \/ \E s \in Sessions : MapInsert(s)
    \/ \E s \in Sessions : Remap(s)
    \/ \E s \in Sessions : RemapRemove(s)
    \/ \E s \in Sessions : RemapInsert(s)
    \/ \E s \in Sessions : SetNick(s)
    \/ \E s \in Sessions : RecvJoin(s, JoinInputs)
    \/ \E s \in Sessions : RecvPart(s, PartInputs)
    \/ \E s \in Sessions : RecvKick(s, KickInputs)
    \/ \E s \in Sessions : RecvQuit(s)
    \/ \E s \in Sessions : Disconnect(s, Causes)

SpecChannels == InitChannels /\ [][NextChannels]_vars

\* The channel modes under the serial schedule: two sessions with a nick
\* each, one channel, the flags that admission reads, OPER and INVITE.
NextModes ==
    \/ \E s \in Sessions : AcceptSpawn(s)
    \/ AcceptPush
    \/ \E s \in Sessions : RecvUser(s, {<<UserU, Zero, Star, UserU>>})
    \/ \E s \in Sessions : NickBegin(s, {<<NickOf(s)>>})
    \/ \E s \in Sessions : MapFind(s)
    \/ \E s \in Sessions : MapRemove(s)
    \/ \E s \in Sessions : MapInsert(s)
    \/ \E s \in Sessions : SetNick(s)
    \/ \E s \in Sessions : RecvJoin(s, {<<Chanf>>})
    \/ \E s \in Sessions : RecvMode(s, ModeInputs \cup DeoperInputs \cup GrantInputs)
    \/ \E s \in Sessions : RecvOper(s, OperInputs)
    \/ \E s \in Sessions : RecvInvite(s, InviteInputs)

SpecModes == InitChannels /\ [][NextModes]_vars

\* Away texts under the serial schedule: two sessions that mark themselves
\* away and back and write to each other.
NextAway ==
    \/ \E s \in Sessions : AcceptSpawn(s)
    \/ AcceptPush
    \/ \E s \in Sessions : RecvUser(s, {<<UserU, Zero, Star, UserU>>})
    \/ \E s \in Sessions : NickBegin(s, {<<NickOf(s)>>})
    \/ \E s \in Sessions : MapFind(s)
    \/ \E s \in Sessions : MapRemove(s)
    \/ \E s \in Sessions : MapInsert(s)
    \/ \E s \in Sessions : SetNick(s)
    \/ \E s \in Sessions : RecvAway(s, AwayInputs)
    \/ \E s \in Sessions : RecvPrivmsg(s, {"PRIVMSG", "NOTICE"}, PrivateMessageInputs)

SpecAway == InitChannels /\ [][NextAway]_vars

\* Secret channels under the serial schedule: two sessions that take and
\* change nicks, one channel with the flag s set and cleared, LIST, and the
\* MODE that asks for the flags.
NextSecret ==
    \/ \E s \in Sessions : AcceptSpawn(s)
    \/ AcceptPush
    \/ \E s \in Sessions : RecvUser(s, {<<UserU, Zero, Star, UserU>>})
    \/ \E s \in Sessions : NickBegin(s, TopicNicks(s))
    \/ \E s \in Sessions : MapFind(s)
    \/ \E s \in Sessions : MapRemove(s)
    \/ \E s \in Sessions : MapInsert(s)
    \/ \E s \in Sessions : Remap(s)
    \/ \E s \in Sessions : RemapRemove(s)
    \/ \E s \in Sessions : RemapInsert(s)
    \/ \E s \in Sessions : SetNick(s)
    \/ \E s \in Sessions : RecvJoin(s, {<<Chanf>>})
    \/ \E s \in Sessions : RecvMode(s, SecretModeInputs)
    \/ \E s \in Sessions : RecvList(s, ListInputs)

SpecSecret == InitChannels /\ [][NextSecret]_vars

\* Invitations under the serial schedule: two sessions that take and change
\* nicks, one channel that is made invite-only, INVITE and JOIN.
NextInvite ==
    \/ \E s \in Sessions : AcceptSpawn(s)
    \/ AcceptPush
    \/ \E s \in Sessions : RecvUser(s, {<<UserU, Zero, Star, UserU>>})
    \/ \E s \in Sessions : NickBegin(s, TopicNicks(s))
    \/ \E s \in Sessions : MapFind(s)
    \/ \E s \in Sessions : MapRemove(s)
    \/ \E s \in Sessions : MapInsert(s)
    \/ \E s \in Sessions : Remap(s)
    \/ \E s \in Sessions : RemapRemove(s)
    \/ \E s \in Sessions : RemapInsert(s)
    \/ \E s \in Sessions : SetNick(s)
    \/ \E s \in Sessions : RecvJoin(s, {<<Chanf>>})
    \/ \E s \in Sessions : RecvMode(s, {<<Chanf, Letters("+", "i")>>})
    \/ \E s \in Sessions : RecvInvite(s, InviteNickInputs)

SpecInvite == InitChannels /\ [][NextInvite]_vars

\* Commands that break their contract, under the serial schedule: JOIN and
\* NAMES without a parameter, MODE without one and with an empty target,
\* PONG and TOPIC without one, and an unknown command.
NextErrors ==
    \/ \E s \in Sessions : AcceptSpawn(s)
    \/ AcceptPush
    \/ \E s \in Sessions : RecvUser(s, {<<UserU, Zero, Star, UserU>>})
    \/ \E s \in Sessions : NickBegin(s, {<<>>, <<NickOf(s)>>})
    \/ \E s \in Sessions : MapFind(s)
    \/ \E s \in Sessions : MapRemove(s)
    \/ \E s \in Sessions : MapInsert(s)
    \/ \E s \in Sessions : SetNick(s)
    \/ \E s \in Sessions : RecvBare(s, {"JOIN", "NAMES"})
    \/ \E s \in Sessions : RecvMode(s, BareModeInputs)
    \/ \E s \in Sessions : RecvPong(s, {<<>>})
    \/ \E s \in Sessions : RecvTopic(s, {<<>>})
    \/ \E s \in Sessions : RecvUnknown(s, {"FOO"})

SpecErrors == InitChannels /\ [][NextErrors]_vars

\* Mode strings with several letters under the serial schedule: two
\* sessions in one channel, and letters that take and take no parameter.
NextParams ==
    \/ \E s \in Sessions : AcceptSpawn(s)
    \/ AcceptPush
    \/ \E s \in Sessions : RecvUser(s, {<<UserU, Zero, Star, UserU>>})
    \/ \E s \in Sessions : NickBegin(s, {<<NickOf(s)>>})
    \/ \E s \in Sessions : MapFind(s)
    \/ \E s \in Sessions : MapRemove(s)
    \/ \E s \in Sessions : MapInsert(s)
    \/ \E s \in Sessions : SetNick(s)
    \/ \E s \in Sessions : RecvJoin(s, {<<Chanf>>})
    \/ \E s \in Sessions : RecvMode(s, ParamModeInputs)

SpecParams == InitChannels /\ [][NextParams]_vars

\* Bans and their exceptions under the serial schedule: session 1 opens the
\* channel and sets the masks, session 2 joins and leaves.
NextBans ==
    \/ \E s \in Sessions : AcceptSpawn(s)
    \/ AcceptPush
    \/ \E s \in Sessions : RecvUser(s, {<<UserU, Zero, Star, UserU>>})
    \/ \E s \in Sessions : NickBegin(s, {<<NickOf(s)>>})
    \/ \E s \in Sessions : MapFind(s)
    \/ \E s \in Sessions : MapRemove(s)
    \/ \E s \in Sessions : MapInsert(s)
    \/ \E s \in Sessions : SetNick(s)
    \/ \E s \in Sessions : RecvJoin(s, {<<Chanf>>})
    \/ \E s \in Sessions : RecvPart(s, {<<Chanf>>})
    \/ \E s \in Sessions : RecvMode(s, BanInputs)

SpecBans == InitChannels /\ [][NextBans]_vars

\* Topics under the serial schedule: two sessions that take and change
\* nicks, one channel with the flag t set and cleared, and TOPIC to read
\* and to write under both spellings of the channel name.
NextTopic ==
    \/ \E s \in Sessions : AcceptSpawn(s)
    \/ AcceptPush
    \/ \E s \in Sessions : RecvUser(s, {<<UserU, Zero, Star, UserU>>})
    \/ \E s \in Sessions : NickBegin(s, TopicNicks(s))
    \/ \E s \in Sessions : MapFind(s)
    \/ \E s \in Sessions : MapRemove(s)
    \/ \E s \in Sessions : MapInsert(s)
    \/ \E s \in Sessions : Remap(s)
    \/ \E s \in Sessions : RemapRemove(s)
    \/ \E s \in Sessions : RemapInsert(s)
    \/ \E s \in Sessions : SetNick(s)
    \/ \E s \in Sessions : RecvJoin(s, {<<Chanf>>})
    \/ \E s \in Sessions : RecvMode(s, TopicModeInputs)
    \/ \E s \in Sessions : RecvTopic(s, TopicInputs)

SpecTopic == InitChannels /\ [][NextTopic]_vars

\* The two mutexes of the registries under every interleaving: two
\* sessions, OPER, JOIN of one channel and WHOIS, each at the grain of its
\* lock acquisitions.
NextLocks ==
    \/ \E s \in Sessions : AcceptSpawn(s)
    \/ AcceptPush
    \/ \E s \in Sessions : RecvUser(s, {<<UserU, Zero, Star, UserU>>})
    \/ \E s \in Sessions : NickBegin(s, {<<NickOf(s)>>})
    \/ \E s \in Sessions : MapFind(s)
    \/ \E s \in Sessions : MapRemove(s)
    \/ \E s \in Sessions : MapInsert(s)
    \/ \E s \in Sessions : SetNick(s)
    \/ \E s \in Sessions : RecvOper(s, {<<OperName, OperPass>>})
    \/ \E s \in Sessions : JoinBegin(s, {<<Chanf>>})
    \/ \E s \in Sessions : JoinCreate(s)
    \/ \E s \in Sessions : JoinHold(s)
    \/ \E s \in Sessions : JoinSend(s)
    \/ \E s \in Sessions : JoinNames(s)
    \/ \E s \in Sessions : WhoisBegin(s, WhoisInputs)
    \/ \E s \in Sessions : WhoisChannels(s)

SpecLocks == InitInterleaved /\ [][NextLocks]_vars

\* The liveness loop under the serial schedule: two sessions in one channel,
\* the pinger of each, PONG with every kind of parameter, QUIT and the end
\* of the reader.
NextPing ==
    \/ \E s \in Sessions : AcceptSpawn(s)
    \/ AcceptPush
    \/ \E s \in Sessions : RecvUser(s, {<<UserU, Zero, Star, UserU>>})
    \/ \E s \in Sessions : NickBegin(s, {<<NickOf(s)>>})
    \/ \E s \in Sessions : MapFind(s)
    \/ \E s \in Sessions : MapRemove(s)
    \/ \E s \in Sessions : MapInsert(s)
    \/ \E s \in Sessions : SetNick(s)
    \/ \E s \in Sessions : RecvJoin(s, {<<Chanf>>})
    \/ \E s \in Sessions : RecvPong(s, PongInputs)
    \/ \E s \in Sessions : PingTick(s)
    \/ \E s \in Sessions : RecvQuit(s)
    \/ \E s \in Sessions : Disconnect(s, Causes)

SpecPing == InitChannels /\ [][NextPing]_vars

\* The timer of a pinger fires again and again, and a task that can take
\* its next step inside the server takes it; when a client writes its next
\* line or closes its socket is up to the client.
FairPing ==
    /\ WF_vars(AcceptPush)
    /\ \A s \in Sessions :
         /\ WF_vars(PingTick(s))
         /\ WF_vars(MapFind(s))
         /\ WF_vars(MapRemove(s))
         /\ WF_vars(MapInsert(s))
         /\ WF_vars(SetNick(s))

SpecPingFair == SpecPing /\ FairPing

\* Messages to a channel under the serial schedule: two sessions, one
\* channel, the flags m and n, voice, OPER, and a session that changes its
\* nick.
NextMessages ==
    \/ \E s \in Sessions : AcceptSpawn(s)
    \/ AcceptPush
    \/ \E s \in Sessions : RecvUser(s, {<<UserU, Zero, Star, UserU>>})
    \/ \E s \in Sessions : NickBegin(s, {<<NickOf(s)>>} \cup
                                          (IF s = 1 THEN {} ELSE {<<NickC>>}))
    \/ \E s \in Sessions : MapFind(s)
    \/ \E s \in Sessions : MapRemove(s)
    \/ \E s \in Sessions : MapInsert(s)
    \/ \E s \in Sessions : Remap(s)
    \/ \E s \in Sessions : RemapRemove(s)
    \/ \E s \in Sessions : RemapInsert(s)
    \/ \E s \in Sessions : SetNick(s)
    \/ \E s \in Sessions : RecvJoin(s, {<<Chanf>>})
    \/ \E s \in Sessions : RecvMode(s, MessageModeInputs)
    \/ \E s \in Sessions : RecvOper(s, {<<OperName, OperPass>>})
    \/ \E s \in Sessions : RecvPrivmsg(s, {"PRIVMSG", "NOTICE"}, ChannelMessageInputs)

SpecMessages == InitChannels /\ [][NextMessages]_vars

\* Messages to the names of the services under the serial schedule: the
\* sessions take the nicks a, nickserv and NickServ.
NextServices ==
    \/ \E s \in Sessions : AcceptSpawn(s)
    \/ AcceptPush
    \/ \E s \in Sessions : RecvUser(s, {<<UserU, Zero, Star, UserU>>})
    \/ \E s \in Sessions : NickBegin(s, ServiceNickInputs)
    \/ \E s \in Sessions : MapFind(s)
    \/ \E s \in Sessions : MapRemove(s)
    \/ \E s \in Sessions : MapInsert(s)
    \/ \E s \in Sessions : Remap(s)
    \/ \E s \in Sessions : RemapRemove(s)
    \/ \E s \in Sessions : RemapInsert(s)
    \/ \E s \in Sessions : SetNick(s)
    \/ \E s \in Sessions : RecvPrivmsg(s, {"PRIVMSG"}, ServiceMessageInputs)

SpecServices == InitChannels /\ [][NextServices]_vars

\* NickServ under the serial schedule: one session holds the nick
\* nickserv, the other registers a nick, identifies and changes its nick.
NextIdentify ==
    \/ \E s \in Sessions : AcceptSpawn(s)
    \/ AcceptPush
    \/ \E s \in Sessions : RecvUser(s, {<<UserU, Zero, Star, UserU>>})
    \/ \E s \in Sessions : NickBegin(s, ServiceUsers(s))
    \/ \E s \in Sessions : MapFind(s)
    \/ \E s \in Sessions : MapRemove(s)
    \/ \E s \in Sessions : MapInsert(s)
    \/ \E s \in Sessions : SetNick(s)
    \/ \E s \in Sessions : RecvNickServ(s, NickServInputs)

SpecIdentify == InitChannels /\ [][NextIdentify]_vars

\* The roles of a channel under the serial schedule: two sessions, one
\* channel, every role letter given and taken, KICK, and one session that
\* knows the operator password.
NextRoles ==
    \/ \E s \in Sessions : AcceptSpawn(s)
    \/ AcceptPush
    \/ \E s \in Sessions : RecvUser(s, {<<UserU, Zero, Star, UserU>>})
    \/ \E s \in Sessions : NickBegin(s, {<<NickOf(s)>>})
    \/ \E s \in Sessions : MapFind(s)
    \/ \E s \in Sessions : MapRemove(s)
    \/ \E s \in Sessions : MapInsert(s)
    \/ \E s \in Sessions : SetNick(s)
    \/ \E s \in Sessions : RecvJoin(s, {<<Chanf>>})
    \/ \E s \in Sessions : RecvMode(s, RoleInputs)
    \/ \E s \in Sessions : RecvOper(s, OperOf(s))
    \/ \E s \in Sessions : RecvKick(s, KickNickInputs)

SpecRoles == InitChannels /\ [][NextRoles]_vars

\* The roles of a channel where no session is a server operator: two
\* sessions that join and leave, every role letter given and taken, KICK.
NextMembers ==
    \/ \E s \in Sessions : AcceptSpawn(s)
    \/ AcceptPush
    \/ \E s \in Sessions : RecvUser(s, {<<UserU, Zero, Star, UserU>>})
    \/ \E s \in Sessions : NickBegin(s, {<<NickOf(s)>>})
    \/ \E s \in Sessions : MapFind(s)
    \/ \E s \in Sessions : MapRemove(s)
    \/ \E s \in Sessions : MapInsert(s)
    \/ \E s \in Sessions : SetNick(s)
    \/ \E s \in Sessions : RecvJoin(s, {<<Chanf>>})
    \/ \E s \in Sessions : RecvPart(s, {<<Chanf>>})
    \/ \E s \in Sessions : RecvMode(s, RoleInputs)
    \/ \E s \in Sessions : RecvKick(s, KickNickInputs)

SpecMembers == InitChannels /\ [][NextMembers]_vars

\* JOINs of two sessions to one channel, interleaved at the lock
\* acquisitions of on_join.
NextJoinRace ==
    \/ \E s \in Sessions : AcceptSpawn(s)
    \/ AcceptPush
    \/ \E s \in Sessions : RecvUser(s, {<<UserU, Zero, Star, UserU>>})
    \/ \E s \in Sessions : NickBegin(s, {<<NickOf(s)>>})
    \/ \E s \in Sessions : MapFind(s)
    \/ \E s \in Sessions : MapRemove(s)
    \/ \E s \in Sessions : MapInsert(s)
    \/ \E s \in Sessions : SetNick(s)
    \/ \E s \in Sessions : JoinBegin(s, {<<Chanf>>})
    \/ \E s \in Sessions : JoinCreate(s)
    \/ \E s \in Sessions : JoinEnter(s)
    \/ \E s \in Sessions : JoinNames(s)

SpecJoinRace == InitInterleaved /\ [][NextJoinRace]_vars

\* JOIN and PART of one channel, interleaved at their lock acquisitions.
NextPartRace ==
    \/ NextJoinRace
    \/ \E s \in Sessions : PartBegin(s, {<<Chanf>>})
    \/ \E s \in Sessions : PartCheck(s)
    \/ \E s \in Sessions : PartLeave(s)
    \/ \E s \in Sessions : PartRemove(s)

SpecPartRace == InitInterleaved /\ [][NextPartRace]_vars

\* Every interleaving of the lock acquisitions of the readers, the acceptor
\* and the teardowns.
NextInterleaved ==
    \/ \E s \in Sessions : AcceptSpawn(s)
    \/ AcceptPush
    \/ \E s \in Sessions : NickBegin(s, {<<NickA>>, <<NickB>>})
    \/ \E s \in Sessions : MapFind(s)
    \/ \E s \in Sessions : MapRemove(s)
    \/ \E s \in Sessions : MapInsert(s)
    \/ \E s \in Sessions : Remap(s)
    \/ \E s \in Sessions : RemapRemove(s)
    \/ \E s \in Sessions : RemapInsert(s)
    \/ \E s \in Sessions : SetNick(s)
    \/ \E s \in Sessions : Disconnect(s, {"EOF"})

SpecInterleaved == InitInterleaved /\ [][NextInterleaved]_vars

(***************************************************************************)
(* Properties: registration                                                *)
(***************************************************************************)
\* The reader of s is between two lines and has not ended.
Idle(s) == task[s] = "run" /\ pc[s] = "idle"

\* The step is the handler of s answering with the one numeric and nothing
\* else being written to any socket.
OnlyReply(s, code) == sent' = [NoSent EXCEPT ![s] = <<Numeric(code)>>]

\* C6: while a session is not registered, every command other than CAP, PASS,
\* NICK and USER is answered with numeric 451 and changes no server state and
\* no session state: no channel is created or joined, no line is written to
\* another session, no registry entry changes.
UnregisteredCommandIsRefused ==
    [][\A s \in Sessions : \A command \in Commands \ Registration :
           (Idle(s) /\ ~registered[s] /\ last'[1] = s /\ last'[2] = command)
               => /\ OnlyReply(s, "451")
                  /\ UNCHANGED <<server_vars, client_vars, task_vars,
                                 history_vars>>]_vars

\* C6, its case: an unregistered session has sent JOIN and got 451 while the
\* other session is registered, and no channel exists.
UnregisteredJoinRefused ==
    \E s \in Sessions : \E t \in Sessions \ {s} :
        /\ last = <<s, "JOIN", <<>> >>
        /\ ~registered[s] /\ registered[t]
        /\ sent[s] = <<Numeric("451")>>
        /\ channels = EmptyMap

\* C7: a session is registered exactly when a valid NICK and a USER with at
\* least four parameters have both been accepted, in either order and
\* whatever the parameters of the accepted USER are.
RegisteredWhenNickAndUserAccepted ==
    \A s \in Sessions :
        Idle(s) => (registered[s] <=> (Len(nick[s]) # 0 /\ user_accepted[s]))

\* The characters of a nick, as the specification lists them.
NickCharset ==
    Range(UpperChars) \cup Range(LowerChars) \cup Range(DigitChars) \cup {"_", "-"}

NickStateUnchanged ==
    UNCHANGED <<nick, clients, clients_pending, nick_history, pc, task>>

\* C8: a rejected NICK leaves the state unchanged: without a parameter the
\* reply is 431; with a nick of length 0, of more than 24 characters or with
\* a character outside [A-Za-z0-9_-] the reply is 432; with a nick that is
\* mapped to any session, the requester included, the reply is 433; and the
\* session's nick, clients, clients_pending and the nick history stay as
\* they were.
RejectedNickChangesNothing ==
    [][\A s \in Sessions : \A params \in NickInputs :
           (Idle(s) /\ last' = <<s, "NICK", params>>) =>
               /\ Len(params) = 0 => OnlyReply(s, "431") /\ NickStateUnchanged
               /\ (/\ Len(params) > 0
                   /\ \/ Len(params[1]) = 0
                      \/ Len(params[1]) > 24
                      \/ \E i \in 1..Len(params[1]) : params[1][i] \notin NickCharset)
                  => OnlyReply(s, "432") /\ NickStateUnchanged
               /\ (Len(params) > 0 /\ params[1] \in DOMAIN clients)
                  => OnlyReply(s, "433") /\ NickStateUnchanged]_vars

\* C8, its case: a registered session has asked for the nick it holds and got
\* 433, and its registry entry is still its own.
OwnNickRefused ==
    \E s \in Sessions :
        /\ Idle(s) /\ registered[s]
        /\ last = <<s, "NICK", <<nick[s]>> >>
        /\ sent[s] = <<Numeric("433")>>
        /\ nick[s] \in DOMAIN clients /\ clients[nick[s]] = s

\* C10: for a registered session that holds nick A, NICK B and then NICK A
\* leaves clients[A] pointing to the session, leaves no entry for B, and the
\* history list of A has at least two entries.
NickRoundTripKeepsHistory ==
    \A s \in Sessions :
        (/\ Idle(s) /\ registered[s]
         /\ Len(nick_trail[s]) = 3
         /\ nick_trail[s][1] = nick_trail[s][3]
         /\ last = <<s, "NICK", <<nick[s]>> >>)
            => /\ nick[s] \in DOMAIN clients /\ clients[nick[s]] = s
               /\ nick_trail[s][2] \notin DOMAIN clients
               /\ nick[s] \in DOMAIN nick_history
               /\ Len(nick_history[nick[s]]) >= 2

(***************************************************************************)
(* Properties: channels                                                    *)
(***************************************************************************)
\* No handler is mid-execution and the acceptor is between two connections.
Quiescent == accepting = NoClient /\ \A s \in Sessions : pc[s] = "idle"

\* The channel set of a session holds the names as typed; the registry is
\* keyed by the lowercased name.  A name of the set stands for its channel.
InChannelSet(s, key) == \E name \in client_channels[s] : to_lowercase(name) = key

\* C1: in every state where no handler is mid-execution, for every session s
\* and every channel c, c is in the channel set of s if and only if the nick
\* of s is a key of the participants map of c.
MembershipOnBothSides ==
    Quiescent =>
        \A s \in Sessions : task[s] = "run" =>
            /\ \A key \in DOMAIN channels :
                   InChannelSet(s, key) <=> has_participant(channels[key], nick[s])
            /\ \A name \in client_channels[s] : to_lowercase(name) \in DOMAIN channels

\* C2: in every state where no handler is mid-execution, every channel of the
\* registry has at least one participant.
NoEmptyChannel ==
    Quiescent =>
        \A key \in DOMAIN channels : DOMAIN channels[key].participants # {}

\* C3: in every state where no handler is mid-execution, every key of every
\* participants map is a nick mapped in clients.
ParticipantsAreMapped ==
    Quiescent =>
        \A key \in DOMAIN channels :
            \A n \in DOMAIN channels[key].participants : n \in DOMAIN clients

\* C9: when a registered session that is a participant of channels changes
\* its nick from A to B, each of those channels has afterwards the key B with
\* the role bits A had, and no key A.
NickChangeKeepsRoles ==
    [][\A s \in Sessions :
           (/\ task[s] = "run" /\ registered[s]
            /\ pc[s] = "set_remapped" /\ pc'[s] = "idle")
               => \A key \in DOMAIN channels :
                      has_participant(channels[key], nick[s]) =>
                          /\ key \in DOMAIN channels'
                          /\ has_participant(channels'[key], nick'[s])
                          /\ channels'[key].participants[nick'[s]] =
                                 channels[key].participants[nick[s]]
                          /\ ~has_participant(channels'[key], nick[s])]_vars

(***************************************************************************)
(* Properties: interleavings                                               *)
(***************************************************************************)
\* C4: for any interleaving of NICK commands of different sessions, once the
\* handlers have returned every session with a nick n is the one clients[n]
\* points to, so no two sessions hold one nick.
NickOwnedByOneSession ==
    (\A s \in Sessions : pc[s] = "idle") =>
        \A s \in Sessions :
            (task[s] = "run" /\ Len(nick[s]) # 0) =>
                nick[s] \in DOMAIN clients /\ clients[nick[s]] = s

\* C4, the teardown: a session that ends removes no entry of clients that
\* points to another session.
TeardownRemovesOwnEntry ==
    [][\A s \in Sessions :
           (task[s] = "run" /\ task'[s] = "done") =>
               \A n \in DOMAIN clients :
                   clients[n] # s => (n \in DOMAIN clients' /\ clients'[n] = clients[n])]_vars

\* C5: from the moment the reader of a connection can take its first command
\* until teardown, the session is in clients_pending or in clients and never
\* in both; the first valid NICK finds the session in clients_pending, so
\* map_nick never fails; a terminated session is in neither.
PendingOrMapped ==
    \A s \in Sessions :
        LET pending == \E i \in 1..Len(clients_pending) : clients_pending[i] = s
            mapped == \E n \in DOMAIN clients : clients[n] = s
        IN  /\ task[s] # "panic"
            /\ (task[s] = "run" /\ pc[s] = "idle") => (pending /\ ~mapped) \/ (mapped /\ ~pending)
            /\ task[s] = "done" => ~pending /\ ~mapped


(***************************************************************************)
(* Properties: admission and channel modes                                 *)
(***************************************************************************)
\* The step is the handler of s for the command with one channel name as
\* its first parameter.
Asked(s, command) ==
    /\ Idle(s) /\ last'[1] = s /\ last'[2] = command
    /\ Len(last'[3]) > 0

\* The step changes no membership: neither a participants map nor the
\* channel set of a session.
MembershipUnchanged ==
    /\ DOMAIN channels' = DOMAIN channels
    /\ \A key \in DOMAIN channels :
           channels'[key].participants = channels[key].participants
    /\ UNCHANGED client_channels

JoinersShareOneChannel ==
    (\A s \in Sessions : pc[s] = "idle") =>
        \A key \in DOMAIN channels :
            LET participants == channels[key].participants IN
                /\ \A s \in Sessions :
                       InChannelSet(s, key) => nick[s] \in DOMAIN participants
                /\ \E n \in DOMAIN participants :
                       /\ participants[n] = ChannelUserModes(TRUE)
                       /\ \A o \in DOMAIN participants \ {n} :
                              participants[o] = ChannelUserModes(FALSE)


\* C13: a JOIN of one channel by a session that was not in it, followed by
\* the PART of that channel by the same session with no command between,
\* in the same or another letter case, leaves the participants of the
\* channel and the channel set of the session as they were before the JOIN;
\* a channel that did not exist before the JOIN does not exist afterwards.
JoinThenPartRestores ==
    [][\A s \in Sessions :
           (/\ Idle(s) /\ registered[s]
            /\ last[1] = s /\ last[2] = "JOIN" /\ last[3] \in {<<ChanF>>, <<Chanf>>}
            /\ last'[1] = s /\ last'[2] = "PART" /\ last'[3] \in {<<ChanF>>, <<Chanf>>})
               => LET before == last[4]
                      key == Chanf
                  IN  ~has_channel_participant(before.channels, key, nick[s]) =>
                          /\ client_channels'[s] = before.cc
                          /\ IF key \in DOMAIN before.channels
                             THEN /\ key \in DOMAIN channels'
                                  /\ channels'[key].participants =
                                         before.channels[key].participants
                             ELSE key \notin DOMAIN channels']_vars


(***************************************************************************)
(* Properties: roles                                                       *)
(***************************************************************************)
\* The tier of a participant: owner 5, admin 4, operator 3, half-operator 2,
\* voice 1, none 0.
Rank(m) ==
    IF m.owner THEN 5 ELSE IF m.admin THEN 4 ELSE IF m.operator THEN 3
    ELSE IF m.half_operator THEN 2 ELSE IF m.voiced THEN 1 ELSE 0

\* C14: a KICK by a session that is not a server operator removes the target
\* from the participants only if the caller is a half-operator or above and
\* strictly outranks the target, or kicks itself; a caller of the rank of
\* its target removes nobody, and a refused KICK leaves the participants
\* as they were.
KickNeedsHigherRank ==
    [][\A s \in Sessions :
           (/\ Asked(s, "KICK") /\ ~operator[s] /\ Len(last'[3]) > 1
            /\ to_lowercase(last'[3][1]) \in DOMAIN channels)
               => LET key == to_lowercase(last'[3][1])
                      target == last'[3][2]
                      participants == channels[key].participants
                      allowed == /\ nick[s] \in DOMAIN participants
                                 /\ target \in DOMAIN participants
                                 /\ Rank(participants[nick[s]]) >= 2
                                 /\ \/ target = nick[s]
                                    \/ Rank(participants[nick[s]]) >
                                           Rank(participants[target])
                  IN  ~allowed =>
                          /\ key \in DOMAIN channels'
                          /\ channels'[key].participants = participants]_vars


(***************************************************************************)
(* Properties: channel MODE                                                *)
(***************************************************************************)
\* A MODE line is among the lines the step wrote.
ModeBroadcast ==
    \E t \in Sessions : \E i \in 1..Len(sent'[t]) : sent'[t][i].verb = "MODE"

\* C15: a MODE on a channel by a session that is neither a server operator
\* nor an operator or above of the channel, an ordinary member included,
\* changes no flag (m, i, k, l, n, s, t), no ban and no ban exception, and
\* no MODE line is broadcast.
ModeNeedsOperator ==
    [][\A s \in Sessions :
           (/\ Asked(s, "MODE") /\ ~operator[s]
            /\ last'[3][1] \in DOMAIN channels)
               => LET key == last'[3][1]
                      participants == channels[key].participants
                      privileged == /\ nick[s] \in DOMAIN participants
                                    /\ Rank(participants[nick[s]]) >= 3
                  IN  ~privileged =>
                          /\ key \in DOMAIN channels'
                          /\ channels'[key].modes = channels[key].modes
                          /\ channels'[key].bans = channels[key].bans
                          /\ channels'[key].ban_exceptions = channels[key].ban_exceptions
                          /\ ~ModeBroadcast]_vars


\* The role a caller needs for a role letter: owner for q, admin or above
\* for a, operator or above for o, half-operator or above for h and for +v,
\* voice or above for -v.
HoldsRoleFor(m, sign, letter) ==
    CASE letter = "q" -> Rank(m) >= 5
      [] letter = "a" -> Rank(m) >= 4
      [] letter = "o" -> Rank(m) >= 3
      [] letter = "h" -> Rank(m) >= 2
      [] letter = "v" -> IF sign = "+" THEN Rank(m) >= 2 ELSE Rank(m) >= 1

ChangedLetters(before, after) ==
    {letter \in {"m", "i", "n", "s", "t"} :
        FlagField(before.modes, letter) # FlagField(after.modes, letter)}
    \cup (IF before.modes.password # after.modes.password THEN {"k"} ELSE {})
    \cup (IF before.modes.limit # after.modes.limit THEN {"l"} ELSE {})
    \cup (IF before.bans # after.bans THEN {"b"} ELSE {})
    \cup (IF before.ban_exceptions # after.ban_exceptions THEN {"e"} ELSE {})
    \cup {letter \in RoleLetters :
             \E n \in DOMAIN before.participants :
                 RoleField(before.participants[n], letter) #
                     RoleField(after.participants[n], letter)}

\* C17: the letters of a broadcast MODE line are the letters whose state the
\* command changed: -k on a channel without a key, -l on a channel without
\* a limit, and setting or clearing a flag that already has the value
\* contribute no letter.
ModeEchoIsExact ==
    [][\A s \in Sessions :
           (/\ Asked(s, "MODE")
            /\ last'[3][1] \in DOMAIN channels
            /\ last'[3][1] \in DOMAIN channels')
               => \A t \in Sessions : \A i \in 1..Len(sent'[t]) :
                      sent'[t][i].verb = "MODE" =>
                          Range(sent'[t][i].changes) \ {"+", "-"} =
                              ChangedLetters(channels[last'[3][1]],
                                             channels'[last'[3][1]])]_vars


(***************************************************************************)
(* Properties: messages                                                    *)
(***************************************************************************)
\* The step is the handler of s for a PRIVMSG or NOTICE to one channel
\* that exists.
Spoke(s) ==
    /\ Idle(s) /\ last'[1] = s /\ last'[2] \in {"PRIVMSG", "NOTICE"}
    /\ last'[3] \in ChannelMessageInputs
    /\ to_lowercase(last'[3][1]) \in DOMAIN channels

Received(t, verb) == {i \in 1..Len(sent'[t]) : sent'[t][i].verb = verb}

\* C19: a PRIVMSG or NOTICE to a channel that is accepted reaches every
\* session that is in the channel, the sender excepted, exactly once, and
\* the sender not at all; also the sessions that changed their nick after
\* joining.
AcceptedMessageReachesMembers ==
    [][\A s \in Sessions :
           (Spoke(s) /\ sent'[s] = <<>>) =>
               \A t \in Sessions \ {s} :
                   (task[t] = "run" /\ InChannelSet(t, to_lowercase(last'[3][1])))
                       => Cardinality(Received(t, last'[2])) = 1]_vars


\* C20: a PRIVMSG of a registered session to the reserved name of a service
\* is handed to the service as a command, whether or not a client is mapped
\* under the name: the sender is answered by the service, never with 401,
\* and no session is sent the message.
ServiceNameReachesService ==
    [][\A s \in Sessions :
           (/\ Idle(s) /\ registered[s]
            /\ last'[1] = s /\ last'[2] = "PRIVMSG"
            /\ last'[3] \in {<<NickService, Help>>, <<NickServKey, Help>>})
               => /\ \A i \in 1..Len(sent'[s]) : sent'[s][i] # Numeric("401")
                  /\ \E i \in 1..Len(sent'[s]) : "text" \in DOMAIN sent'[s][i]
                  /\ \A t \in Sessions : Received(t, "PRIVMSG") = {}]_vars


(***************************************************************************)
(* Properties: away                                                        *)
(***************************************************************************)
\* C21: AWAY with an argument stores it as the away text of the session and
\* is answered with 306; AWAY without an argument empties the away text and
\* is answered with 305; a PRIVMSG to a session whose away text is empty
\* brings no 301 to the sender.
AwayClears ==
    [][\A s \in Sessions :
           /\ (Idle(s) /\ last'[1] = s /\ last'[2] = "AWAY") =>
                  IF Len(last'[3]) > 0
                  THEN away_message'[s] = last'[3][1] /\ OnlyReply(s, "306")
                  ELSE away_message'[s] = <<>> /\ OnlyReply(s, "305")
           /\ (/\ Idle(s) /\ last'[1] = s /\ last'[2] = "PRIVMSG"
               /\ last'[3] \in PrivateMessageInputs
               /\ last'[3][1] \in DOMAIN clients
               /\ away_message[clients[last'[3][1]]] = <<>>)
                  => \A i \in 1..Len(sent'[s]) : sent'[s][i] # Numeric("301")]_vars


(***************************************************************************)
(* Properties: server operators                                            *)
(***************************************************************************)
\* C22: in every state where no handler is mid-execution, a nick is in the
\* operators set of the server if and only if the connected session that
\* holds the nick has its operator flag set.
OperatorsSetTracksFlags ==
    Quiescent =>
        \A s \in Sessions :
            (task[s] = "run" /\ Len(nick[s]) # 0) =>
                (nick[s] \in operators <=> operator[s])


\* C23: the operator flag of a session becomes true only in a step in which
\* the session itself sends OPER with a name and a password of the
\* credential map; no MODE, no failed OPER and no command of another
\* session sets it, and MODE -o on its own nick clears it.
OperatorOnlyByOper ==
    [][\A s \in Sessions :
           /\ (~operator[s] /\ operator'[s]) =>
                  /\ last'[1] = s /\ last'[2] = "OPER" /\ Len(last'[3]) >= 2
                  /\ last'[3][1] \in DOMAIN operator_credentials
                  /\ operator_credentials[last'[3][1]] = last'[3][2]
           /\ (/\ Idle(s) /\ last'[1] = s /\ last'[2] = "MODE"
               /\ last'[3] = <<nick[s], Letters("-", "o")>>
               /\ nick[s] \in DOMAIN clients)
                  => ~operator'[s]]_vars

\* C23, its case: a session that is no server operator has asked for the
\* flag with MODE +o or +O on its own nick while the other session is a
\* server operator, and has not got it.
SelfGrantRefused ==
    \E s \in Sessions : \E t \in Sessions \ {s} :
        /\ last[1] = s /\ last[2] = "MODE" /\ last[3] \in GrantInputs
        /\ last[3][1] = nick[s]
        /\ ~operator[s] /\ operator[t]


\* The pinger of the session has taken the writer and ended, and the reader
\* of the session is still there.
TimedOut(s) == pinger[s] = "done" /\ task[s] = "run"

\* The session is in no registry and its nick in no channel.
InNoRegistry(s) ==
    /\ s \notin Range(clients)
    /\ s \notin Range(clients_pending)
    /\ \A c \in DOMAIN channels : nick[s] \notin DOMAIN channels[c].participants

\* C24: a registered session that leaves a PING unanswered is, once the
\* next tick of its pinger has found the flag still cleared, eventually torn
\* down without anything more from the client: its reader ends and it is in
\* no registry and in no channel.
PingTimeoutTearsDown ==
    \A s \in Sessions :
        (TimedOut(s) /\ registered[s]) ~> (task[s] = "done" /\ InNoRegistry(s))


\* The step is a turn of the pinger loop of the session.
Tick(s) == last'[1] = s /\ last'[2] = "tick"

\* The step is a PONG of the session that on_pong does not refuse.
GoodPong(s) ==
    /\ last'[1] = s /\ last'[2] = "PONG"
    /\ Len(last'[3]) >= 1
    /\ Len(last'[3]) > 1 => last'[3][2] = ServerName

Quitted(s) == task[s] = "run" /\ pinger[s] = "run" /\ ~writer[s]

\* C26: once QUIT has been processed, no later line of that connection
\* changes a registry, a channel or the nick history.
QuitIsFinal ==
    [][\A s \in Sessions :
          Quitted(s) /\ last'[1] = s /\ last'[2] \in Known
              => UNCHANGED <<clients, clients_pending, channels, nick_history>>]_vars


\* The two sessions are participants of one channel at least.
ShareChannel(s, t) ==
    \E c \in DOMAIN channels :
        {nick[s], nick[t]} \subseteq DOMAIN channels[c].participants

QuitLines(t) == Cardinality({i \in DOMAIN sent[t] : sent[t][i].verb = "QUIT"})

\* C27: the step that ends a session (QUIT, or the end of its reader for
\* any cause) writes exactly one QUIT line to every other session that
\* shares a channel with it, and none to a session that shares none.
TerminationTellsCoMembers ==
    [][\A s \in Sessions :
          last'[1] = s /\ last'[2] \in Causes \cup {"QUIT"} /\ registered[s]
              => \A t \in Sessions \ {s} :
                     task[t] = "run" /\ writer[t] /\ registered[t]
                         => QuitLines(t)' = IF ShareChannel(s, t) THEN 1 ELSE 0]_vars


\* The task that holds the mutex the reader of the session has to take for
\* its next step (NoClient when the mutex is free or the reader needs none).
Needs(s) ==
    IF pc[s] \in {"whois_channels", "join_create", "join_enter", "join_names"}
    THEN channels_mutex
    ELSE IF pc[s] \in {"join_send", "map_insert"}
    THEN clients_mutex
    ELSE NoClient

\* C28: no interleaving of handlers reaches a state in which two tasks each
\* wait for a mutex the other holds.
HandlersDeadlockFree ==
    \A s, t \in Sessions : ~(s # t /\ Needs(s) = t /\ Needs(t) = s)


\* The step is a TOPIC of the session with a text for a channel that is
\* mapped under the lowercased name.
WritesTopic(s) ==
    /\ last'[1] = s /\ last'[2] = "TOPIC" /\ Len(last'[3]) >= 2
    /\ to_lowercase(last'[3][1]) \in DOMAIN channels

Refused(s) == \E i \in DOMAIN sent'[s] : sent'[s][i].verb \in {"442", "482"}

\* C29: a TOPIC with a text changes the topic record only if the caller has
\* joined the channel and is a participant of it and, while the channel has
\* +t, is half-operator or above or a server operator; a write refused
\* with 442 or 482 leaves the record as it was and sends no TOPIC line.
TopicWriteNeedsMembership ==
    [][\A s \in Sessions :
          WritesTopic(s) =>
              LET key == to_lowercase(last'[3][1])
                  channel == channels[key]
              IN  /\ channels'[key].topic # channel.topic
                        => /\ InChannelSet(s, key)
                           /\ nick[s] \in DOMAIN channel.participants
                           /\ channel.modes.restrict_topic
                                 => \/ operator[s]
                                    \/ is_half_operator(channel.participants[nick[s]])
                  /\ Refused(s)
                        => /\ channels'[key].topic = channel.topic
                           /\ \A t \in Sessions : Received(t, "TOPIC") = {}]_vars


\* The lines that tell the session the stored topic of the channel, with
\* the channel name as the session typed it.
TopicPair(name, topic) ==
    <<Line("332", ServerName, <<name, topic.text>>),
      Line("333", ServerName, <<name, topic.set_by, topic.set_at>>)>>

\* C30: while a channel has a topic, written by an earlier TOPIC, a TOPIC
\* without a text is answered with 332 and 333 carrying the stored text,
\* setter and time, under either spelling of the channel name, and a
\* session that enters the channel is sent 332 and 333 as well.
TopicReadReturnsStored ==
    [][\A s \in Sessions :
          /\ last'[1] = s /\ last'[2] = "TOPIC" /\ Len(last'[3]) = 1 /\ writer[s]
              /\ to_lowercase(last'[3][1]) \in DOMAIN channels
              /\ Len(channels[to_lowercase(last'[3][1])].topic.text) > 0
                => sent'[s] = TopicPair(last'[3][1],
                                        channels[to_lowercase(last'[3][1])].topic)
          /\ last'[1] = s /\ last'[2] = "JOIN" /\ writer[s]
              /\ to_lowercase(last'[3][1]) \in DOMAIN channels
              /\ Len(channels[to_lowercase(last'[3][1])].topic.text) > 0
              /\ client_channels'[s] # client_channels[s]
                => Received(s, "332") # {} /\ Received(s, "333") # {}]_vars


\* The channels map without the secret channels that the session has not
\* joined: what a session that is no server operator may know of.
VisibleTo(s) ==
    [c \in {k \in DOMAIN channels :
                ~channels[k].modes.secret \/ InChannelSet(s, k)} |-> channels[c]]

\* C31: to a session that is no server operator, LIST and the MODE that
\* asks for the flags of a channel answer as they would if the secret
\* channels the session has not joined were not there.
SecretChannelInvisible ==
    [][\A s \in Sessions :
          ~operator[s] /\ last'[1] = s =>
              /\ last'[2] = "LIST" => sent' = on_list(VisibleTo(s), s, last'[3])
              /\ last'[2] = "MODE" /\ Len(last'[3]) = 1 /\ last'[3][1] \in DOMAIN channels
                    /\ last'[3][1] \notin DOMAIN VisibleTo(s)
                    => sent' = send_numeric_reply(NoSent, s, "403")]_vars


\* The invite sets of all channels.
Invites == [c \in DOMAIN channels |-> channels[c].invites]

\* C32: an INVITE changes an invite set, or puts an INVITE line on the
\* socket of some session, only if it has two parameters, the channel is
\* mapped, the requester has joined it and is a participant, the target
\* nick is mapped and is no participant, and the requester is channel
\* operator or above or a server operator; an INVITE answered with 461,
\* 403, 442, 401, 443 or 482 changes no invite set and sends no INVITE line;
\* and after an INVITE that put the target into the invite set a JOIN of
\* the target is not answered with 473.
InviteNeedsEveryCheck ==
    [][\A s \in Sessions :
          last'[1] = s /\ last'[2] = "INVITE" =>
              LET params == last'[3]
                  key == to_lowercase(params[2])
                  Delivered == \E t \in Sessions : Received(t, "INVITE") # {}
                  Refusal == \E i \in DOMAIN sent'[s] :
                                 sent'[s][i].verb \in {"461", "403", "442", "401", "443", "482"}
              IN  /\ Invites' # Invites \/ Delivered
                        => /\ Len(params) >= 2
                           /\ key \in DOMAIN channels
                           /\ InChannelSet(s, key)
                           /\ nick[s] \in DOMAIN channels[key].participants
                           /\ params[1] \in DOMAIN clients
                           /\ params[1] \notin DOMAIN channels[key].participants
                           /\ \/ operator[s]
                              \/ is_operator(channels[key].participants[nick[s]])
                  /\ Refusal => Invites' = Invites /\ ~Delivered
                  /\ Invites' # Invites
                        => LET t == clients[params[1]]
                               r == join_channel(channels', NoSent, t, params[2], <<>>)
                           IN  \A i \in DOMAIN r.out[t] : r.out[t][i].verb # "473"]_vars


\* C33: a command of a registered session, whatever its parameters, leaves
\* the reader task of the session running and the session registered.
ProtocolErrorKeepsSession ==
    [][\A s \in Sessions :
          task[s] = "run" /\ registered[s] /\ last'[1] = s /\ last'[2] \in Known
              => task'[s] = "run" /\ registered'[s]]_vars


\* C34: a MODE of a participant that gives +k with a key ends: the reader
\* of the session is not left waiting inside the handler; a channel without
\* a key has the key afterwards, and a channel with one keeps it and the
\* caller is sent 467.
KeyModeCompletes ==
    [][\A s \in Sessions :
          (/\ last'[1] = s /\ last'[2] = "MODE"
           /\ last'[3] = <<Chanf, Letters("+", "k"), KeyX>>
           /\ Chanf \in DOMAIN channels
           /\ operator[s] \/ nick[s] \in DOMAIN channels[Chanf].participants)
              => /\ task'[s] = "run"
                 /\ IF Len(channels[Chanf].modes.password) = 0
                    THEN channels'[Chanf].modes.password = KeyX
                    ELSE /\ channels'[Chanf].modes.password
                              = channels[Chanf].modes.password
                         /\ \E i \in DOMAIN sent'[s] : sent'[s][i].verb = "467"]_vars


\* C35: the clearing forms -k and -l take no parameter, so in a mode string
\* that a participant sends with -k or -l before +l, the +l takes the first
\* parameter of the command: the limit of the channel is that number
\* afterwards.
ClearingFormsTakeNoParameter ==
    [][\A s \in Sessions :
          (/\ last'[1] = s /\ last'[2] = "MODE"
           /\ last'[3] \in {<<Chanf, <<"-", "k", "+", "l">>, Five>>,
                            <<Chanf, <<"-", "l", "+", "l">>, Five>>}
           /\ Chanf \in DOMAIN channels
           /\ nick[s] \in DOMAIN channels[Chanf].participants)
              => channels'[Chanf].modes.limit = 5]_vars


\* a mask with wildcards covers a prefix: `?` stands for one character and
\* `*` for any number of them
RECURSIVE Covers(_, _)
Covers(mask, value) ==
    IF Len(mask) = 0 THEN Len(value) = 0
    ELSE IF Head(mask) = "*"
         THEN \/ Covers(Tail(mask), value)
              \/ Len(value) > 0 /\ Covers(mask, Tail(value))
    ELSE /\ Len(value) > 0
         /\ Head(mask) = "?" \/ Head(mask) = Head(value)
         /\ Covers(Tail(mask), Tail(value))

\* C36: bans and exceptions apply by mask matching: a session that is not a
\* server operator and whose prefix a ban mask of the channel covers, with
\* no exception mask covering it, does not become a participant by JOIN and
\* is told 474; with an exception mask covering the prefix the ban does not
\* stop the JOIN.
BansApplyByMask ==
    [][\A s \in Sessions :
          (/\ last'[1] = s /\ last'[2] = "JOIN" /\ last'[3] = <<Chanf>>
           /\ Chanf \in DOMAIN channels
           /\ ~operator[s]
           /\ nick[s] \notin DOMAIN channels[Chanf].participants
           /\ \E mask \in channels[Chanf].bans : Covers(mask, get_prefix(s)))
              => IF \E mask \in channels[Chanf].ban_exceptions :
                        Covers(mask, get_prefix(s))
                 THEN nick[s] \in DOMAIN channels'[Chanf].participants
                 ELSE /\ nick[s] \notin DOMAIN channels'[Chanf].participants
                      /\ \E i \in DOMAIN sent'[s] : sent'[s][i].verb = "474"]_vars


\* C37: when the last member of a channel leaves while another session
\* joins the same name, then once both handlers have returned, a session
\* whose JOIN was confirmed and that holds the channel in its channel set
\* finds the channel in the registry: no session is left holding a channel
\* that the registry does not have.
JoinSurvivesLastPart ==
    \A s \in Sessions :
        (Quiescent /\ Chanf \in client_channels[s]) => Chanf \in DOMAIN channels


\* some role bit of a participant is set
AnyRole(modes) == \E mode \in RoleLetters : RoleField(modes, mode)

IdentifiedForCurrentNick ==
    \A s \in Sessions :
        (Idle(s) /\ identified[s]) => nick[s] \in DOMAIN nickserv_nicks

=============================================================================
